---- MODULE Spec2Model ----
(***************************************************************************)
(* pSurface control-plane core: the tracked-value reconciliation layer     *)
(* (dlive/value.py), the mix state API (dlive/api.py), the outbound port   *)
(* (dlive/connection.py) and the codec (dlive/encoding.py, dlive/entity.py)*)
(*                                                                         *)
(* Values of every attribute are integers, as in Python: bool is an int    *)
(* subclass (False == 0, True == 1), Level and Scene are ints, a Color is  *)
(* its enum value and a Label is an index into LabelTable whose entry 0 is *)
(* the empty string.  Python's None is NoneVal.                            *)
(***************************************************************************)
EXTENDS Integers, Sequences, FiniteSets, TLC

\* ------------------------------------------------------------------ bounds
MaxTime == 2
MaxQueue == 3
MaxBankOffset == 10
MaxPending == 1

\* --------------------------------------------------------------- constants
NoneVal == -1
VALUE_FULL == 127
VALUE_0DB == 107
VALUE_OFF == 0
VALUE_FADER_MIDPOINT == 88

VARIABLES
    classOf,        \* TrackedValue.all_instances: instance -> "Tracked" | "Immediate"
    value,          \* instance -> TrackedValue._value (NoneVal before the first resolve)
    last_resolve,   \* instance -> TrackedValue._last_resolve
    requests,       \* instance -> TrackedValue._requests, a queue of [v, t]
    now,            \* time()
    op,             \* the last call: its name, receiver, argument, locals and result
    fired,          \* the events the last call fired, in order
    bank_offset,    \* Protocol._bank_offset (App.config.midi_bank_offset)
    cmd,            \* the command handed to the Encoder
    stage,          \* position of the encode / parse / decode pipeline
    wire,           \* the byte lists written to the outbound port by the last call
    port,           \* the outbound DLiveSocketPort's rate limiting fields
    inbox,          \* MIDI messages read from a port and not yet fed to the Decoder
    messages,       \* Decoder._messages, most recent first
    decoded,        \* what Decoder.feed_and_decode returned so far (None left out)
    mute_color_quirks_mode, \* Decoder.mute_color_quirks_mode
    inbound,        \* byte strings the console has sent, not yet read from the inbound port
    listener,       \* the thread of DLive._listen_to_incoming_data: "idle", "running", "dead"
    last_inbound_data, \* Decoder._last_inbound_data, in tenths of a second
    clock,          \* time() in tenths of a second; now is its whole seconds
    feedback_source, \* DLive._feedback_source (NoCh for None)
    sync,           \* the thread inside DLive.sync: its position, loop index, wake-up time
    hist,           \* what the running sync has done so far (history)
    layer,          \* the LayerController: its fields, its strips, its scene event queue
    strip,          \* a VirtualChannel: _mode, _base_channel, _to_channel (and its _mode_lock)
    turn,           \* the thread inside a handler of the VirtualChannel: its event and locals
    queue,          \* AsyncEvent._queue of each event, oldest call first
    worker,         \* the thread of AsyncEvent._worker and what it has delivered so far
    jobs,           \* the job store and the executor of the Scheduler's BackgroundScheduler
    keys            \* the deck's keys: what key_change has run for each press

tvVars == <<classOf, value, last_resolve, requests>>
callVars == <<op, fired>>
uiVars == <<strip, turn, queue, worker, jobs, keys>>
sessVars == <<clock, feedback_source, sync, hist, layer, uiVars>>
extVars == <<inbound, listener, last_inbound_data, sessVars>>
codecVars == <<bank_offset, cmd, stage, inbox, messages, decoded, mute_color_quirks_mode,
               extVars>>
vars == <<classOf, value, last_resolve, requests, now, op, fired,
          bank_offset, cmd, stage, wire, port, inbox, messages, decoded,
          mute_color_quirks_mode, inbound, listener, last_inbound_data,
          clock, feedback_source, sync, hist, layer,
          strip, turn, queue, worker, jobs, keys>>

\* ---------------------------------------------------------------- identity
NoCh == [bank |-> "NONE", index |-> 0]
Ch(b, n) == [bank |-> b, index |-> n]

TV(kind, ch, to) == <<kind, ch, to>>
Kind(i) == i[1]

all_instances == DOMAIN classOf

\* The values an attribute of the given kind takes in this model.
ValuesOf(kind) ==
    CASE kind = "mute"       -> {0, 1}
      [] kind = "level"      -> {VALUE_OFF, VALUE_0DB, VALUE_FULL}
      [] kind = "send_level" -> {VALUE_OFF, VALUE_0DB}
      [] kind = "color"      -> {0, 3}
      [] kind = "scene"      -> {0, 1}
      [] kind = "label"      -> {0, 1}

\* Python truthiness of a value held by a TrackedValue: False, 0 and "" are
\* falsy, None is falsy.
Truthy(v) == v # NoneVal /\ v # 0

\* ------------------------------------------------------------- deque helpers
RemoveAtKeep(q, k) == q

RemoveAt(q, k) == [j \in 1..(Len(q) - 1) |-> IF j < k THEN q[j] ELSE q[j + 1]]

RECURSIVE FilterSeq(_, _, _)
\* [r for r in q if keep(r)] with keep(r) == r.t - t <= max_age
FilterSeq(q, t, max_age) ==
    IF q = <<>> THEN <<>>
    ELSE IF Head(q).t - t <= max_age
         THEN <<Head(q)>> \o FilterSeq(Tail(q), t, max_age)
         ELSE FilterSeq(Tail(q), t, max_age)

\* ---------------------------------------------------- TrackedValue.resolve
FirstMatchLast(q, v) ==
    IF \E k \in 1..Len(q) : q[k].v = v
    THEN CHOOSE k \in 1..Len(q) : q[k].v = v /\ \A j \in (k + 1)..Len(q) : q[j].v # v
    ELSE 0

\* for index, (rvalue, rtime) in enumerate(self._requests): if rvalue == value: break
\* 0 stands for first_matched_index = None.
FirstMatch(q, v) ==
    IF \E k \in 1..Len(q) : q[k].v = v
    THEN CHOOSE k \in 1..Len(q) : q[k].v = v /\ \A j \in 1..(k - 1) : q[j].v # v
    ELSE 0

ResolveEvents(i, v, update, matched_value, matched_time, remaining) ==
    IF update
    THEN (IF Truthy(matched_value)
          THEN <<[ev |-> "on_resolve", tv |-> i, v |-> matched_value, t |-> matched_time]>>
          ELSE <<>>)
         \o
         (IF remaining = 0
          THEN <<[ev |-> "on_update_idle", tv |-> i, v |-> v, t |-> NoneVal]>>
          ELSE <<>>)
    ELSE <<>>

\* The whole of TrackedValue.resolve on fields (val, q) at time t.
ResolveResult(i, val, q, v, t) ==
    LET update == val # v
        index == FirstMatch(q, v)
        matched_value == IF index # 0 THEN q[index].v ELSE NoneVal
        matched_time == IF index # 0 THEN q[index].t ELSE NoneVal
        q2 == IF index # 0 THEN RemoveAt(q, index) ELSE q
        remaining == Len(q2)
    IN [value |-> v, last_resolve |-> t, requests |-> q2,
        update |-> update, index |-> index, mtime |-> matched_time,
        remaining |-> remaining,
        fired |-> ResolveEvents(i, v, update, matched_value, matched_time, remaining)]

\* ---------------------------------------------------- TrackedValue.request
CoalescesNever(q, v) == FALSE

\* elif self._requests[-1][0] == value
Coalesces(q, v) == Len(q) > 0 /\ q[Len(q)].v = v

SettledNever(val, q, v) == FALSE

\* if num_requests == 0: if self._value == value: return 0, False
Settled(val, q, v) == Len(q) = 0 /\ val = v

RequestResult(val, q, v, t) ==
    LET num_requests == Len(q)
    IN IF Settled(val, q, v)
       THEN [requests |-> q, pending |-> 0, queued |-> FALSE]
       ELSE IF Coalesces(q, v)
       THEN [requests |-> [q EXCEPT ![num_requests] = [v |-> v, t |-> t]],
             pending |-> num_requests, queued |-> FALSE]
       ELSE [requests |-> Append(q, [v |-> v, t |-> t]),
             pending |-> num_requests + 1, queued |-> TRUE]

\* ------------------------------------------------------ TrackedValue.purge
PurgeResult(q, max_age, t) ==
    IF Len(q) = 0
    THEN [requests |-> q, purged |-> 0]
    ELSE LET kept == FilterSeq(q, t, max_age)
         IN [requests |-> kept, purged |-> Len(q) - Len(kept)]

\* --------------------------------------------------------- ImmediateValue
\* An _update_and_notify that notifies on every call.
ImmediateResultAlways(i, val, v, t) ==
    [value |-> v, last_resolve |-> t, update |-> TRUE,
     fired |-> <<[ev |-> "on_resolve", tv |-> i, v |-> v, t |-> t],
                 [ev |-> "on_update_idle", tv |-> i, v |-> v, t |-> NoneVal]>>]

\* ImmediateValue._update_and_notify
ImmediateResult(i, val, v, t) ==
    LET update == val # v
    IN [value |-> v, last_resolve |-> t, update |-> update,
        fired |-> IF update
                  THEN <<[ev |-> "on_resolve", tv |-> i, v |-> v, t |-> t],
                         [ev |-> "on_update_idle", tv |-> i, v |-> v, t |-> NoneVal]>>
                  ELSE <<>>]

\* ------------------------------------------------ ChannelIdentifier (entity)
\* ChannelIdentifier._BANK_MAP in insertion order: MIDI bank offset n, first
\* channel offset of the bank, bank.
BANK_MAP ==
    <<[n |-> 0, start |-> 0,  bank |-> "INPUT"],
      [n |-> 1, start |-> 0,  bank |-> "MONO_GROUP"],
      [n |-> 1, start |-> 64, bank |-> "STEREO_GROUP"],
      [n |-> 2, start |-> 0,  bank |-> "MONO_AUX"],
      [n |-> 2, start |-> 64, bank |-> "STEREO_AUX"],
      [n |-> 3, start |-> 0,  bank |-> "MONO_MATRIX"],
      [n |-> 3, start |-> 64, bank |-> "STEREO_MATRIX"],
      [n |-> 4, start |-> 0,  bank |-> "MONO_FX_SEND"],
      [n |-> 4, start |-> 16, bank |-> "STEREO_FX_SEND"],
      [n |-> 4, start |-> 32, bank |-> "FX_RETURN"],
      [n |-> 4, start |-> 48, bank |-> "MAIN"],
      [n |-> 4, start |-> 54, bank |-> "DCA"],
      [n |-> 4, start |-> 78, bank |-> "MUTE_GROUP"]>>

BankEntry(bank) == BANK_MAP[CHOOSE k \in 1..Len(BANK_MAP) : BANK_MAP[k].bank = bank]

\* ChannelIdentifier.midi_bank_offset
midi_bank_offset(ch) == BankEntry(ch.bank).n

midi_channel_index_swapped(ch) == ch.index

\* ChannelIdentifier.midi_channel_index
midi_channel_index(ch) == BankEntry(ch.bank).start + ch.index

Raise == [bank |-> "IndexError", index |-> 0]

\* ChannelIdentifier.from_raw_data: the greatest start <= channel_offset of the
\* bank row (reversed(banks) visits the starts in descending order).
from_raw_data(n, channel_offset) ==
    LET row == {k \in 1..Len(BANK_MAP) : BANK_MAP[k].n = n}
        fit == {k \in row : BANK_MAP[k].start <= channel_offset}
    IN IF row = {} \/ fit = {}
       THEN Raise
       ELSE LET k == CHOOSE k \in fit : \A j \in fit : BANK_MAP[j].start <= BANK_MAP[k].start
            IN Ch(BANK_MAP[k].bank, channel_offset - BANK_MAP[k].start)

\* Level.__new__: max(min(VALUE_FULL, value), VALUE_OFF)
Level(x) == IF x > VALUE_FULL THEN VALUE_FULL ELSE IF x < VALUE_OFF THEN VALUE_OFF ELSE x

\* ------------------------------------------------------------ Encoder
SYSEX_HEADER == <<0, 0, 26, 80, 16, 1, 0>>

\* Encoder.recall_scene
recall_scene(B, scene) ==
    LET bank == scene \div 128
        scene_offset == scene - bank * 128
    IN <<176 + B, 0, bank, 192 + B, scene_offset>>

SceneInRange(scene) == ~(scene < 0 \/ scene > 499)

\* Encoder.label
label(B, channel, text) ==
    <<240>> \o SYSEX_HEADER \o
    <<B + midi_bank_offset(channel), 3, midi_channel_index(channel)>> \o text \o <<247>>

\* Encoder.color
color(B, channel, c) ==
    <<240>> \o SYSEX_HEADER \o
    <<B + midi_bank_offset(channel), 6, midi_channel_index(channel), c, 247>>

\* Encoder.mute
mute(B, channel, m) ==
    <<144 + B + midi_bank_offset(channel), midi_channel_index(channel),
      IF m = 1 THEN 127 ELSE 63, midi_channel_index(channel), 0>>

\* Encoder.level
level(B, channel, lv) ==
    <<176 + B + midi_bank_offset(channel), 99, midi_channel_index(channel), 98, 23, 6, lv>>

\* Encoder.send_level
send_level(B, from_channel, to_channel, lv) ==
    <<240>> \o SYSEX_HEADER \o
    <<B + midi_bank_offset(from_channel), 13, midi_channel_index(from_channel),
      B + midi_bank_offset(to_channel), midi_channel_index(to_channel), lv, 247>>

\* The Encoder call of a command [kind, channel, to_channel, v, text].
Encode(B, c) ==
    CASE c.kind = "Scene"     -> recall_scene(B, c.v)
      [] c.kind = "Label"     -> label(B, c.channel, c.text)
      [] c.kind = "Color"     -> color(B, c.channel, c.v)
      [] c.kind = "Mute"      -> mute(B, c.channel, c.v)
      [] c.kind = "Level"     -> level(B, c.channel, c.v)
      [] c.kind = "SendLevel" -> send_level(B, c.channel, c.to_channel, c.v)

\* ----------------------------------------------- MIDI byte stream -> messages
\* What the port's parser hands to the Decoder: channel messages by status
\* byte with running status, a sysex as the data between F0 and F7.
MidiMsg(type, channel, d1, d2, data) ==
    [type |-> type, channel |-> channel, d1 |-> d1, d2 |-> d2, data |-> data]

DataLen(status) == IF status \div 16 \in {12, 13} THEN 1 ELSE 2

StatusType(status) ==
    CASE status \div 16 = 9  -> "note_on"
      [] status \div 16 = 11 -> "control_change"
      [] status \div 16 = 12 -> "program_change"
      [] OTHER               -> "other"

RECURSIVE MidiParseFrom(_, _, _, _)
MidiParseFrom(bytes, k, status, acc) ==
    IF k > Len(bytes) THEN <<>>
    ELSE LET b == bytes[k] IN
         IF b = 240 THEN MidiParseFrom(bytes, k + 1, 240, <<>>)
         ELSE IF b = 247
              THEN (IF status = 240 THEN <<MidiMsg("sysex", 0, 0, 0, acc)>> ELSE <<>>)
                   \o MidiParseFrom(bytes, k + 1, 0, <<>>)
         ELSE IF b >= 128 THEN MidiParseFrom(bytes, k + 1, b, <<>>)
         ELSE IF status = 0 THEN MidiParseFrom(bytes, k + 1, 0, <<>>)
         ELSE IF status = 240 THEN MidiParseFrom(bytes, k + 1, 240, Append(acc, b))
         ELSE IF Len(acc) + 1 = DataLen(status)
              THEN <<MidiMsg(StatusType(status), status % 16,
                             IF Len(acc) = 0 THEN b ELSE acc[1],
                             IF Len(acc) = 0 THEN 0 ELSE b, <<>>)>>
                   \o MidiParseFrom(bytes, k + 1, status, <<>>)
              ELSE MidiParseFrom(bytes, k + 1, status, Append(acc, b))

MidiParse(bytes) == MidiParseFrom(bytes, 1, 0, <<>>)

\* ------------------------------------------------------------ Decoder
\* A DLiveMessage; kind "None" is Python's None, kind "Raise" an IndexError
\* leaving feed_and_decode.
DMsg(kind, channel, to_channel, v, text, info) ==
    [kind |-> kind, channel |-> channel, to_channel |-> to_channel, v |-> v,
     text |-> text, info |-> info]

NoMessage == DMsg("None", NoCh, NoCh, NoneVal, <<>>, "")
RaisedMessage == DMsg("Raise", NoCh, NoCh, NoneVal, <<>>, "IndexError")

SubSeqFrom(q, k) == IF k > Len(q) THEN <<>> ELSE SubSeq(q, k, Len(q))

RECURSIVE StripLeft(_, _)
StripLeft(q, S) == IF q # <<>> /\ Head(q) \in S THEN StripLeft(Tail(q), S) ELSE q
RECURSIVE StripRight(_, _)
StripRight(q, S) ==
    IF q # <<>> /\ q[Len(q)] \in S THEN StripRight(SubSeq(q, 1, Len(q) - 1), S) ELSE q
Strip(q, S) == StripRight(StripLeft(q, S), S)

\* Label(text): ASCII text cut to 8 characters, surrounding whitespace stripped.
LabelOf(text) == Strip(IF Len(text) > 8 THEN SubSeq(text, 1, 8) ELSE text, {9, 10, 13, 32})

\* d.insert(3, self._bank_offset) on d = data[7:]: data is mido's SysexData, a
\* tuple, and so is its slice; a tuple has no insert and the call raises.
TupleInsert(d, k, x) == DMsg("Raise", NoCh, NoCh, NoneVal, <<>>, "AttributeError")

\* Decoder._decode_channel_identifier
decode_channel_identifier(B, n, ch) == from_raw_data(n - B, ch)

\* parameter bytes Decoder._decode_sysex_data dispatches on
LabelParameter == 2
ColorParameter == 5
SendLevelParameter == 13

\* Decoder._decode_sysex_data
decode_sysex_data(B, quirks, data) ==
    IF Len(data) < Len(SYSEX_HEADER) + 4 \/ SubSeq(data, 1, 7) # SYSEX_HEADER
    THEN NoMessage
    ELSE LET d == SubSeqFrom(data, 8)
             identifier == decode_channel_identifier(B, d[1], d[3])
             parameter == d[2]
         IN IF identifier = Raise THEN RaisedMessage
            ELSE IF parameter = LabelParameter
            THEN DMsg("Label", identifier, NoCh, NoneVal, LabelOf(Strip(SubSeqFrom(d, 4), {0})), "")
            ELSE IF parameter = ColorParameter /\ d[4] <= 7
            THEN (IF quirks
                  THEN DMsg("UnknownSysex", NoCh, NoCh, NoneVal, d, "color or mirrored request for mute")
                  ELSE DMsg("Color", identifier, NoCh, d[4], <<>>, ""))
            ELSE IF parameter = SendLevelParameter /\ 5 <= Len(d) /\ Len(d) <= 6
            THEN IF Len(d) = 5
                 THEN TupleInsert(d, 3, B)
                 ELSE LET to_channel_identifier == decode_channel_identifier(B, d[4], d[5])
                      IN IF to_channel_identifier = Raise THEN RaisedMessage
                         ELSE DMsg("SendLevel", identifier, to_channel_identifier,
                                   Level(d[6]), <<>>, "")
            ELSE DMsg("UnknownSysex", NoCh, NoCh, NoneVal, d, "")

is_cc(m, control) == m.type = "control_change" /\ m.d1 = control

\* Scene((n << 7) + scene_offset)
SceneNumber(n, scene_offset) == n * 128 + scene_offset

\* Decoder._decode on the window m (m[1] is the most recent message):
\* [msg, clear] with clear telling that m.clear() ran.
decode(B, quirks, m) ==
    IF m[1].type = "sysex"
    THEN LET r == decode_sysex_data(B, quirks, m[1].data)
         IN [msg |-> r, clear |-> r.kind # "Raise"]
    ELSE IF Len(m) >= 3 /\ is_cc(m[3], 99) /\ is_cc(m[2], 98) /\ is_cc(m[1], 6)
    THEN IF m[2].d2 = 23
         THEN LET id == decode_channel_identifier(B, m[3].channel, m[3].d2)
              IN IF id = Raise THEN [msg |-> RaisedMessage, clear |-> FALSE]
                 ELSE [msg |-> DMsg("Level", id, NoCh, Level(m[1].d2), <<>>, ""), clear |-> TRUE]
         ELSE [msg |-> NoMessage, clear |-> TRUE]
    ELSE IF /\ Len(m) >= 2
            /\ m[2].type = "note_on" /\ m[2].d2 \in {127, 63}
            /\ m[1].type = "note_on" /\ m[1].d2 = 0
    THEN LET id == decode_channel_identifier(B, m[2].channel, m[2].d1)
         IN IF id = Raise THEN [msg |-> RaisedMessage, clear |-> FALSE]
            ELSE [msg |-> DMsg("Mute", id, NoCh, IF m[2].d2 = 127 THEN 1 ELSE 0, <<>>, ""),
                  clear |-> TRUE]
    ELSE IF Len(m) >= 2 /\ is_cc(m[2], 0) /\ m[1].type = "program_change"
    THEN [msg |-> DMsg("Scene", NoCh, NoCh, SceneNumber(m[2].d2, m[1].d1), <<>>, ""),
          clear |-> TRUE]
    ELSE [msg |-> NoMessage, clear |-> FALSE]

max_window == 3

\* Decoder.feed_and_decode: the new window and the decoded message.
feed_and_decode(B, quirks, m, midi_message) ==
    LET m1 == <<midi_message>> \o m
        m2 == IF Len(m1) > max_window THEN SubSeq(m1, 1, max_window) ELSE m1
        r == decode(B, quirks, m2)
    IN [messages |-> IF r.clear THEN <<>> ELSE m2, msg |-> r.msg]

\* ------------------------------------------------------ DLiveSocketPort
\* App.config.timing["outbound_capacity_limit"]
capacity == 2
MaxClock == 32
MaxReplies == 1
PollDue == 14
time_unit == 1

\* DLiveSocketPort.__init__ at time t
NewPort(t) == [rate_limiting |-> FALSE, cur_time |-> t, pre_count |-> capacity, cur_count |-> 0]

\* DLiveSocketPort.send_bytes at time t: the port afterwards and whether the
\* bytes were written (False: the write was dropped).
send_bytes(p, t) ==
    IF ~p.rate_limiting
    THEN [port |-> p, sent |-> TRUE]
    ELSE LET p1 == IF (t - p.cur_time) > time_unit
                   THEN [p EXCEPT !.cur_time = t, !.pre_count = p.cur_count, !.cur_count = 0]
                   ELSE p
             \* ec = pre_count * (time_unit - (time() - cur_time)) / time_unit + cur_count,
             \* compared scaled by time_unit
             ec_scaled == p1.pre_count * (time_unit - (t - p1.cur_time)) + p1.cur_count * time_unit
         IN IF ec_scaled > capacity * time_unit
            THEN [port |-> p1, sent |-> FALSE]
            ELSE [port |-> [p1 EXCEPT !.cur_count = p1.cur_count + 1], sent |-> TRUE]

\* ------------------------------------------------------------ call records
NoOp == [name |-> "init", tv |-> TV("none", NoCh, NoCh), arg |-> NoneVal,
         pending |-> 0, queued |-> FALSE, index |-> 0, mtime |-> NoneVal,
         update |-> FALSE, purged |-> 0, after_request |-> FALSE,
         raised |-> "none", dropped |-> FALSE, notified |-> NoneVal, handled |-> NoneVal]

\* The record of a call; after_request tells that the call before it was
\* request(arg) on the same instance.
Call(name, i, arg) ==
    [NoOp EXCEPT !.name = name, !.tv = i, !.arg = arg,
                 !.after_request = (op.name = "request" /\ op.tv = i /\ op.arg = arg)]

\* A command handed to the Encoder.
Cmd(kind, channel, to_channel, v, text) ==
    [kind |-> kind, channel |-> channel, to_channel |-> to_channel, v |-> v, text |-> text]

NoCmd == Cmd("None", NoCh, NoCh, NoneVal, <<>>)

\* DLive.sync not running: no position, nothing written.
NoSync == [pc |-> 0, wake |-> 0, poll |-> FALSE, due |-> 0]
NoHist == [set |-> FALSE, cleared |-> FALSE, written |-> {}, last_write |-> 0, quiet |-> FALSE]

\* No LayerController constructed.
NoLayer == [mode |-> "NONE"]

\* No virtual channel, no event, no job and no key under observation.
NoStrip == [mode |-> "NONE"]
NoTurn == [pc |-> "idle"]
NoWorker == [pc |-> "idle"]
UiIdle ==
    /\ strip = NoStrip
    /\ turn = NoTurn
    /\ queue = <<>>
    /\ worker = NoWorker
    /\ jobs = <<>>
    /\ keys = <<>>

\* The session as constructed: the decoder never fed, no feedback source, no
\* sync running.
SessIdle ==
    /\ last_inbound_data = 0
    /\ clock = 0
    /\ feedback_source = NoCh
    /\ sync = NoSync
    /\ hist = NoHist
    /\ layer = NoLayer
    /\ UiIdle

\* Nothing on the inbound connection, no listener started, no sync running.
ExtIdle ==
    /\ inbound = <<>>
    /\ listener = "idle"
    /\ SessIdle

\* The codec pipeline at rest.
CodecIdle ==
    /\ bank_offset = 0
    /\ cmd = NoCmd
    /\ stage = "idle"
    /\ inbox = <<>>
    /\ messages = <<>>
    /\ decoded = <<>>
    /\ mute_color_quirks_mode = FALSE
    /\ ExtIdle

\* ------------------------------------------------- actions on one instance
\* instance.resolve(v), dispatched on the instance's class
ResolveOn(i, v) ==
    IF classOf[i] = "Tracked"
    THEN ResolveResult(i, value[i], requests[i], v, now)
    ELSE LET r == ImmediateResult(i, value[i], v, now)
         IN [value |-> r.value, last_resolve |-> r.last_resolve, requests |-> requests[i],
             update |-> r.update, index |-> 0, mtime |-> NoneVal, remaining |-> 0,
             fired |-> r.fired]

\* instance.request(v), dispatched on the instance's class
RequestOn(i, v) ==
    IF classOf[i] = "Tracked"
    THEN LET r == RequestResult(value[i], requests[i], v, now)
         IN [value |-> value[i], last_resolve |-> last_resolve[i], requests |-> r.requests,
             pending |-> r.pending, queued |-> r.queued, update |-> FALSE, fired |-> <<>>]
    ELSE LET r == ImmediateResult(i, value[i], v, now)
         IN [value |-> r.value, last_resolve |-> r.last_resolve, requests |-> requests[i],
             pending |-> 0, queued |-> TRUE, update |-> r.update, fired |-> r.fired]

resolve(i, v) ==
    /\ LET r == ResolveOn(i, v)
       IN /\ value' = [value EXCEPT ![i] = r.value]
          /\ last_resolve' = [last_resolve EXCEPT ![i] = r.last_resolve]
          /\ requests' = [requests EXCEPT ![i] = r.requests]
          /\ fired' = r.fired
          /\ op' = [Call("resolve", i, v) EXCEPT !.pending = r.remaining,
                        !.index = r.index, !.mtime = r.mtime, !.update = r.update]
    /\ wire' = <<>>
    /\ UNCHANGED <<classOf, now, port, codecVars>>

request(i, v) ==
    /\ LET r == RequestOn(i, v)
       IN /\ Len(r.requests) <= MaxQueue
          /\ value' = [value EXCEPT ![i] = r.value]
          /\ last_resolve' = [last_resolve EXCEPT ![i] = r.last_resolve]
          /\ requests' = [requests EXCEPT ![i] = r.requests]
          /\ fired' = r.fired
          /\ op' = [Call("request", i, v) EXCEPT !.pending = r.pending,
                        !.queued = r.queued, !.update = r.update]
    /\ wire' = <<>>
    /\ UNCHANGED <<classOf, now, port, codecVars>>

\* instance.purge(max_age)
purge(i, max_age) ==
    LET r == PurgeResult(requests[i], max_age, now)
    IN /\ requests' = [requests EXCEPT ![i] = r.requests]
       /\ fired' = <<>>
       /\ op' = [Call("purge", i, max_age) EXCEPT !.purged = r.purged]
       /\ wire' = <<>>
       /\ UNCHANGED <<classOf, value, last_resolve, now, port, codecVars>>

RECURSIVE SumOver(_, _)
SumOver(f, S) ==
    IF S = {} THEN 0
    ELSE LET x == CHOOSE x \in S : TRUE IN f[x] + SumOver(f, S \ {x})

\* TrackedValue.purge_all: sum(map(lambda i: i.purge(max_age), cls.all_instances))
PurgeAllResult(reqs, max_age, t) ==
    LET each == [i \in DOMAIN reqs |-> PurgeResult(reqs[i], max_age, t)]
    IN [requests |-> [i \in DOMAIN reqs |-> each[i].requests],
        purged |-> SumOver([i \in DOMAIN reqs |-> each[i].purged], DOMAIN reqs)]

purge_all(max_age) ==
    LET r == PurgeAllResult(requests, max_age, now)
    IN /\ requests' = r.requests
       /\ fired' = <<>>
       /\ op' = [Call("purge_all", TV("none", NoCh, NoCh), max_age) EXCEPT !.purged = r.purged]
       /\ wire' = <<>>
       /\ UNCHANGED <<classOf, value, last_resolve, now, port, codecVars>>

\* time() advances between calls
Tick ==
    /\ now < MaxTime
    /\ now' = now + 1
    /\ UNCHANGED <<classOf, value, last_resolve, requests, op, fired, wire, port, codecVars>>

\* --------------------------------------- specification of the TrackedValue
\* The registry holds one instance: a TrackedValue of bools, one of Levels, or
\* an ImmediateValue of Colors.
TVInstances ==
    {[i \in {TV("mute", Ch("INPUT", 0), NoCh)} |-> "Tracked"],
     [i \in {TV("level", Ch("INPUT", 0), NoCh)} |-> "Tracked"],
     [i \in {TV("color", Ch("INPUT", 0), NoCh)} |-> "Immediate"]}

InitTV ==
    /\ classOf \in TVInstances
    /\ value = [i \in DOMAIN classOf |-> NoneVal]
    /\ last_resolve = [i \in DOMAIN classOf |-> NoneVal]
    /\ requests = [i \in DOMAIN classOf |-> <<>>]
    /\ now = 0
    /\ op = NoOp
    /\ fired = <<>>
    /\ wire = <<>>
    /\ port = NewPort(0)
    /\ CodecIdle

NextTV ==
    \/ \E i \in all_instances : \E v \in ValuesOf(Kind(i)) : resolve(i, v)
    \/ \E i \in all_instances : \E v \in ValuesOf(Kind(i)) : request(i, v)
    \/ \E i \in all_instances : \E a \in {0, 1} : purge(i, a)
    \/ Tick

SpecTV == InitTV /\ [][NextTV]_vars

\* ------------------------------------------------------------ DLive (api)
\* Channels of the configured topology the runs exercise, and one channel the
\* configuration does not hold.
ApiInput == Ch("INPUT", 0)
ApiSend == Ch("MONO_AUX", 0)
Unconfigured == Ch("DCA", 0)

\* Label values by index: "", "A"
LabelTable == <<<<>>, <<65>>>>

ShouldSendAlways(queued) == TRUE

\* if tracked.request(value)[1]: ...
ShouldSend(queued) == queued

\* The body shared by DLive.change_scene .. change_send_level: the lookup of
\* the tracked value (IndexError for a channel without one), its request, and
\* for a queued request the encoder call and the port's send_bytes.
ChangeBody(name, i, v, c) ==
    /\ i \in all_instances \/ Unconfigured \in {i[2], i[3]}
    /\ IF i \notin all_instances
       THEN /\ op' = [Call(name, i, v) EXCEPT !.raised = "IndexError"]
            /\ wire' = <<>>
            /\ fired' = <<>>
            /\ UNCHANGED <<value, last_resolve, requests, port>>
       ELSE LET rq == RequestOn(i, v)
                sends == ShouldSend(rq.queued)
                encodable == c.kind # "Scene" \/ SceneInRange(c.v)
                sb == send_bytes(port, now)
            IN /\ Len(rq.requests) <= MaxPending
               /\ value' = [value EXCEPT ![i] = rq.value]
               /\ last_resolve' = [last_resolve EXCEPT ![i] = rq.last_resolve]
               /\ requests' = [requests EXCEPT ![i] = rq.requests]
               /\ fired' = rq.fired
               /\ port' = IF sends /\ encodable THEN sb.port ELSE port
               /\ wire' = IF sends /\ encodable /\ sb.sent
                          THEN <<Encode(bank_offset, c)>> ELSE <<>>
               /\ op' = [Call(name, i, v) EXCEPT
                             !.pending = rq.pending, !.queued = rq.queued,
                             !.update = rq.update,
                             !.raised = IF sends /\ ~encodable THEN "IndexError" ELSE "none",
                             !.dropped = sends /\ encodable /\ ~sb.sent]

\* A change_* call of a thread of its own.
Change(name, i, v, c) ==
    /\ ChangeBody(name, i, v, c)
    /\ UNCHANGED <<classOf, now, codecVars>>

\* DLive.change_scene
change_scene(scene) ==
    Change("change_scene", TV("scene", NoCh, NoCh), scene, Cmd("Scene", NoCh, NoCh, scene, <<>>))

\* DLive.change_color
change_color(channel, c) ==
    Change("change_color", TV("color", channel, NoCh), c, Cmd("Color", channel, NoCh, c, <<>>))

\* DLive.change_label
change_label(channel, l) ==
    Change("change_label", TV("label", channel, NoCh), l,
           Cmd("Label", channel, NoCh, NoneVal, LabelTable[l + 1]))

\* DLive.change_mute
change_mute(channel, m) ==
    Change("change_mute", TV("mute", channel, NoCh), m, Cmd("Mute", channel, NoCh, m, <<>>))

\* DLive.change_level
change_level(channel, lv) ==
    Change("change_level", TV("level", channel, NoCh), lv, Cmd("Level", channel, NoCh, lv, <<>>))

\* DLive.change_send_level
change_send_level(channel, to_channel, lv) ==
    Change("change_send_level", TV("send_level", channel, to_channel), lv,
           Cmd("SendLevel", channel, to_channel, lv, <<>>))

\* One turn of the loop of DLive._listen_to_incoming_data for a decoded
\* message addressed to instance i: resolve, an IndexError of the lookup is
\* swallowed.
listen_to_incoming_data(i, v) ==
    /\ i \in all_instances \/ Unconfigured \in {i[2], i[3]}
    /\ IF i \notin all_instances
       THEN /\ op' = Call("listen", i, v)
            /\ fired' = <<>>
            /\ UNCHANGED <<value, last_resolve, requests>>
       ELSE LET r == ResolveOn(i, v)
            IN /\ value' = [value EXCEPT ![i] = r.value]
               /\ last_resolve' = [last_resolve EXCEPT ![i] = r.last_resolve]
               /\ requests' = [requests EXCEPT ![i] = r.requests]
               /\ fired' = r.fired
               /\ op' = [Call("listen", i, v) EXCEPT !.pending = r.remaining,
                             !.index = r.index, !.mtime = r.mtime, !.update = r.update]
    /\ wire' = <<>>
    /\ UNCHANGED <<classOf, now, port, codecVars>>

stale_max_age == 1

\* _purge_stale_requests, the interval job DLive.listen installs
purge_stale_requests ==
    LET r == PurgeAllResult(requests, stale_max_age, now)
    IN /\ requests' = r.requests
       /\ fired' = <<>>
       /\ wire' = <<>>
       /\ op' = [Call("purge_stale_requests", TV("none", NoCh, NoCh), stale_max_age) EXCEPT
                     !.purged = r.purged,
                     !.notified = IF r.purged > 0 THEN r.purged ELSE NoneVal]
       /\ UNCHANGED <<classOf, value, last_resolve, now, port, codecVars>>

\* DLiveSocketPort.enable_rate_limiting
enable_rate_limiting ==
    /\ ~port.rate_limiting
    /\ port' = [port EXCEPT !.rate_limiting = TRUE]
    /\ op' = Call("enable_rate_limiting", TV("none", NoCh, NoCh), NoneVal)
    /\ fired' = <<>>
    /\ wire' = <<>>
    /\ UNCHANGED <<tvVars, now, codecVars>>

\* ------------------------------------------- specification of the mix state
\* The tracked values a run exercises; every other tracked value of the
\* session stays as constructed.
ApiInstances ==
    {[i \in {TV("scene", NoCh, NoCh)} |-> "Tracked"],
     [i \in {TV("label", ApiInput, NoCh)} |-> "Tracked"],
     [i \in {TV("level", ApiInput, NoCh)} |-> "Tracked"],
     [i \in {TV("send_level", ApiInput, ApiSend)} |-> "Tracked"],
     [i \in {TV("mute", ApiInput, NoCh), TV("color", ApiInput, NoCh)} |->
         IF Kind(i) = "color" THEN "Immediate" ELSE "Tracked"]}

InitApi ==
    /\ classOf \in ApiInstances
    /\ value = [i \in DOMAIN classOf |-> NoneVal]
    /\ last_resolve = [i \in DOMAIN classOf |-> NoneVal]
    /\ requests = [i \in DOMAIN classOf |-> <<>>]
    /\ now = 0
    /\ op = NoOp
    /\ fired = <<>>
    /\ wire = <<>>
    /\ port = NewPort(0)
    /\ CodecIdle

ApiChannels == {ApiInput, Unconfigured}

ApiValues(kind) == IF kind \in {"level", "send_level"} THEN {VALUE_OFF, VALUE_0DB}
                   ELSE ValuesOf(kind)

NextApi ==
    \/ \E s \in ApiValues("scene") \cup {500} : change_scene(s)
    \/ \E ch \in ApiChannels : \E c \in ApiValues("color") : change_color(ch, c)
    \/ \E ch \in ApiChannels : \E l \in ApiValues("label") : change_label(ch, l)
    \/ \E ch \in ApiChannels : \E m \in ApiValues("mute") : change_mute(ch, m)
    \/ \E ch \in ApiChannels : \E lv \in ApiValues("level") : change_level(ch, lv)
    \/ \E ch \in ApiChannels : \E lv \in ApiValues("send_level") :
           change_send_level(ch, ApiSend, lv)
    \/ \E i \in all_instances \cup {TV("mute", Unconfigured, NoCh)} :
           \E v \in ApiValues(Kind(i)) : listen_to_incoming_data(i, v)
    \/ purge_stale_requests
    \/ purge_all(0)
    \/ Tick

SpecApi == InitApi /\ [][NextApi]_vars

\* ------------------------------------------------------ the inbound reader
\* A sysex event of the console with payload d.
Sysex(d) == <<240>> \o SYSEX_HEADER \o d \o <<247>>

\* Reports the console sends for configured channels, under bank offset B.
ConsoleReports(B) ==
    {Sysex(<<B, ColorParameter, 0, c>>) : c \in {0, 3, 7, 8}}
    \cup {Sysex(<<B, ColorParameter, 9, 3>>),
          Sysex(<<B, LabelParameter, 0, 65, 0>>),
          Sysex(<<B, 9, 0, 0>>),
          <<144 + B, 0, 127, 0, 0>>,
          <<176 + B, 99, 0, 98, 23, 6, VALUE_0DB>>,
          <<176 + B, 0, 0, 192 + B, 1>>}
    \cup {Sysex(<<B, SendLevelParameter, 0, B + 2, 0, lv>>) : lv \in {VALUE_OFF, VALUE_0DB}}
    \cup {Sysex(<<B, SendLevelParameter, 0, 0, lv>>) : lv \in {VALUE_OFF, VALUE_0DB}}

\* Events that are no report of a known channel: a foreign header, a payload
\* cut short, bank bytes outside the table.
ConsoleMalformed(B) ==
    {<<240>> \o <<0, 0, 26, 80, 16, 1, 1>> \o <<B, ColorParameter, 0, 3>> \o <<247>>,
     Sysex(<<B, ColorParameter, 0>>),
     Sysex(<<B + 5, ColorParameter, 0, 3>>),
     Sysex(<<B + 5, LabelParameter, 0, 65>>),
     Sysex(<<B, SendLevelParameter, 0, B + 5, 0, VALUE_0DB>>),
     <<144 + B + 5, 0, 127, 0, 0>>,
     <<176 + B + 5, 99, 0, 98, 23, 6, VALUE_0DB>>}

\* Index of a label text in LabelTable (labels are tracked by index).
LabelIndex(text) ==
    IF \E k \in 1..Len(LabelTable) : LabelTable[k] = text
    THEN (CHOOSE k \in 1..Len(LabelTable) : LabelTable[k] = text) - 1
    ELSE Len(LabelTable)

TargetOfLevelFirst(msg) ==
    CASE msg.kind \in {"Level", "SendLevel"} -> TV("level", msg.channel, NoCh)
      [] msg.kind = "Mute"      -> TV("mute", msg.channel, NoCh)
      [] msg.kind = "Scene"     -> TV("scene", NoCh, NoCh)
      [] msg.kind = "Color"     -> TV("color", msg.channel, NoCh)
      [] msg.kind = "Label"     -> TV("label", msg.channel, NoCh)
      [] OTHER                  -> TV("none", NoCh, NoCh)

\* The isinstance chain of _listen_to_incoming_data: the tracked value a
\* message is resolved on (kind "none": the message is ignored).
TargetOf(msg) ==
    CASE msg.kind = "SendLevel" -> TV("send_level", msg.channel, msg.to_channel)
      [] msg.kind = "Level"     -> TV("level", msg.channel, NoCh)
      [] msg.kind = "Mute"      -> TV("mute", msg.channel, NoCh)
      [] msg.kind = "Scene"     -> TV("scene", NoCh, NoCh)
      [] msg.kind = "Color"     -> TV("color", msg.channel, NoCh)
      [] msg.kind = "Label"     -> TV("label", msg.channel, NoCh)
      [] OTHER                  -> TV("none", NoCh, NoCh)

\* message.level, message.mute, message.scene, message.color, message.label
ValueOf(msg) == IF msg.kind = "Label" THEN LabelIndex(msg.text) ELSE msg.v

\* DLive.listen: starts the listener thread once
listen ==
    /\ listener = "idle"
    /\ listener' = "running"
    /\ op' = Call("listen_start", TV("none", NoCh, NoCh), NoneVal)
    /\ fired' = <<>>
    /\ wire' = <<>>
    /\ UNCHANGED <<tvVars, now, port, bank_offset, cmd, stage, inbox, messages, decoded,
                   mute_color_quirks_mode, inbound, last_inbound_data, sessVars>>

\* The inbound port reads the next event of the console and parses it into
\* MIDI messages for the iteration of the listener.
ReadStep ==
    /\ listener = "running"
    /\ inbound # <<>>
    /\ inbox = <<>>
    /\ inbox' = MidiParse(Head(inbound))
    /\ inbound' = Tail(inbound)
    /\ UNCHANGED <<tvVars, now, callVars, wire, port, bank_offset, cmd, stage, messages,
                   decoded, mute_color_quirks_mode, listener, last_inbound_data, sessVars>>

\* One turn of the loop of DLive._listen_to_incoming_data: feed_and_decode,
\* outside the try block, then the resolve on the message's tracked value with
\* an IndexError of the lookup swallowed.  An exception of feed_and_decode
\* ends the thread.
ListenStep ==
    /\ listener = "running"
    /\ inbox # <<>>
    /\ \E r \in {feed_and_decode(bank_offset, mute_color_quirks_mode, messages, Head(inbox))} :
       \E i \in {TargetOf(r.msg)} : \E v \in {ValueOf(r.msg)} :
          /\ messages' = r.messages
          /\ inbox' = Tail(inbox)
          /\ IF r.msg.kind = "Raise"
             THEN /\ listener' = "dead"
                  /\ op' = [Call("listen", i, v) EXCEPT !.raised = r.msg.info]
                  /\ fired' = <<>>
                  /\ UNCHANGED <<value, last_resolve, requests, decoded>>
             ELSE /\ listener' = listener
                  /\ decoded' = IF r.msg.kind = "None" THEN decoded ELSE Append(decoded, r.msg)
                  /\ IF i \notin all_instances
                     THEN /\ op' = Call("listen", i, v)
                          /\ fired' = <<>>
                          /\ UNCHANGED <<value, last_resolve, requests>>
                     ELSE LET rs == ResolveOn(i, v)
                          IN /\ value' = [value EXCEPT ![i] = rs.value]
                             /\ last_resolve' = [last_resolve EXCEPT ![i] = rs.last_resolve]
                             /\ requests' = [requests EXCEPT ![i] = rs.requests]
                             /\ fired' = rs.fired
                             /\ op' = [Call("listen", i, v) EXCEPT
                                           !.pending = rs.remaining, !.index = rs.index,
                                           !.mtime = rs.mtime, !.update = rs.update]
    /\ last_inbound_data' = clock
    /\ wire' = <<>>
    /\ UNCHANGED <<classOf, now, port, bank_offset, cmd, stage, mute_color_quirks_mode,
                   inbound, sessVars>>

\* ---------------------------------------- specification of the inbound reader
\* The tracked values of input 1 and of its sends to aux 1 and to input 1.
InboundInstances ==
    [i \in {TV("scene", NoCh, NoCh), TV("mute", ApiInput, NoCh), TV("level", ApiInput, NoCh),
            TV("label", ApiInput, NoCh), TV("color", ApiInput, NoCh),
            TV("send_level", ApiInput, ApiSend)} |->
        IF Kind(i) = "color" THEN "Immediate" ELSE "Tracked"]

\* The console sends two events: any event, then a report.
InitInbound ==
    /\ classOf = InboundInstances
    /\ value = [i \in DOMAIN classOf |-> NoneVal]
    /\ last_resolve = [i \in DOMAIN classOf |-> NoneVal]
    /\ requests = [i \in DOMAIN classOf |-> <<>>]
    /\ now = 0
    /\ op = NoOp
    /\ fired = <<>>
    /\ wire = <<>>
    /\ port = NewPort(0)
    /\ bank_offset \in {0, MaxBankOffset}
    /\ cmd = NoCmd
    /\ stage = "idle"
    /\ inbox = <<>>
    /\ messages = <<>>
    /\ decoded = <<>>
    /\ mute_color_quirks_mode \in BOOLEAN
    /\ \E e1 \in ConsoleReports(bank_offset) \cup ConsoleMalformed(bank_offset) :
       \E e2 \in {<<144 + bank_offset, 0, 127, 0, 0>>,
                  Sysex(<<bank_offset, SendLevelParameter, 0, bank_offset + 2, 0, VALUE_0DB>>)} :
           inbound = <<e1, e2>>
    /\ listener = "idle"
    /\ SessIdle

NextInbound ==
    \/ listen
    \/ ReadStep
    \/ ListenStep
    \/ \E lv \in ApiValues("send_level") : change_send_level(ApiInput, ApiSend, lv)

SpecInbound == InitInbound /\ [][NextInbound]_vars

\* ------------------------------------------------ specification of the codec
\* One command is encoded, the bytes are parsed into MIDI messages and these
\* are fed one by one to a Decoder of the same bank offset.
\* Number of channels of a bank: up to the next start of its row, or to 127.
BankSize(bank) ==
    LET e == BankEntry(bank)
        later == {BANK_MAP[k].start : k \in {j \in 1..Len(BANK_MAP) :
                      BANK_MAP[j].n = e.n /\ BANK_MAP[j].start > e.start}}
    IN IF later = {} THEN 128 - e.start
       ELSE (CHOOSE x \in later : \A y \in later : x <= y) - e.start

Banks == {BANK_MAP[k].bank : k \in 1..Len(BANK_MAP)}

\* The first and the last channel of every bank of the table.
CodecChannels == {Ch(b, 0) : b \in Banks} \cup {Ch(b, BankSize(b) - 1) : b \in Banks}

\* Send destinations: the first and last aux, fx send and matrix channels.
CodecDestinations ==
    {c \in CodecChannels : c.bank \in {"MONO_AUX", "STEREO_AUX", "MONO_FX_SEND",
                                        "STEREO_FX_SEND", "MONO_MATRIX"}}

CodecLevels == {VALUE_OFF, 1, VALUE_FADER_MIDPOINT, VALUE_0DB, VALUE_FULL}

\* "", "A", "Ab 1", "Vocals 1"
CodecLabels == {<<>>, <<65>>, <<65, 98, 32, 49>>, <<86, 111, 99, 97, 108, 115, 32, 49>>}

CodecCommands ==
    {Cmd("Scene", NoCh, NoCh, n, <<>>) : n \in 0..500}
    \cup {Cmd("Mute", c, NoCh, m, <<>>) : c \in CodecChannels, m \in {0, 1}}
    \cup {Cmd("Level", c, NoCh, l, <<>>) : c \in CodecChannels, l \in CodecLevels}
    \cup {Cmd("Color", c, NoCh, k, <<>>) : c \in CodecChannels, k \in 0..7}
    \cup {Cmd("Label", c, NoCh, NoneVal, t) : c \in CodecChannels, t \in CodecLabels}
    \cup {Cmd("SendLevel", c, d, l, <<>>) : c \in CodecChannels, d \in CodecDestinations,
                                            l \in CodecLevels}

\* What an earlier, incomplete event may have left in the Decoder's window.
CodecWindows ==
    {<<>>,
     <<MidiMsg("note_on", 0, 5, 127, <<>>)>>,
     <<MidiMsg("control_change", 0, 98, 23, <<>>), MidiMsg("control_change", 0, 99, 5, <<>>)>>}

InitCodec ==
    /\ classOf = << >>
    /\ value = << >>
    /\ last_resolve = << >>
    /\ requests = << >>
    /\ now = 0
    /\ op = NoOp
    /\ fired = <<>>
    /\ wire = <<>>
    /\ port = NewPort(0)
    /\ bank_offset \in {0, MaxBankOffset}
    /\ cmd \in CodecCommands
    /\ stage = "input"
    /\ inbox = <<>>
    /\ messages \in CodecWindows
    /\ decoded = <<>>
    /\ mute_color_quirks_mode \in BOOLEAN
    /\ ExtIdle

\* bytes = self._encoder.<kind>(...)
EncodeStep ==
    /\ stage = "input"
    /\ IF cmd.kind = "Scene" /\ ~SceneInRange(cmd.v)
       THEN stage' = "raised" /\ wire' = wire
       ELSE stage' = "encoded" /\ wire' = <<Encode(bank_offset, cmd)>>
    /\ UNCHANGED <<tvVars, now, callVars, port, bank_offset, cmd, inbox, messages, decoded,
                   mute_color_quirks_mode, extVars>>

\* the port parses the bytes it reads into MIDI messages
ParseStep ==
    /\ stage = "encoded"
    /\ inbox' = MidiParse(wire[1])
    /\ stage' = "parsed"
    /\ UNCHANGED <<tvVars, now, callVars, port, bank_offset, cmd, wire, messages, decoded,
                   mute_color_quirks_mode, extVars>>

\* message = self._decoder.feed_and_decode(midi_message)
FeedStep ==
    /\ stage = "parsed"
    /\ inbox # <<>>
    /\ LET r == feed_and_decode(bank_offset, mute_color_quirks_mode, messages, Head(inbox))
       IN /\ messages' = r.messages
          /\ decoded' = IF r.msg.kind = "None" THEN decoded ELSE Append(decoded, r.msg)
    /\ inbox' = Tail(inbox)
    /\ stage' = IF Tail(inbox) = <<>> THEN "done" ELSE "parsed"
    /\ last_inbound_data' = clock
    /\ UNCHANGED <<tvVars, now, callVars, port, bank_offset, cmd, wire, mute_color_quirks_mode,
                   inbound, listener, sessVars>>

NextCodec == EncodeStep \/ ParseStep \/ FeedStep

SpecCodec == InitCodec /\ [][NextCodec]_vars

\* ------------------------------------------------------------------ claims
\* A step that is a call named `name` on instance i (Tick alone changes now,
\* every call records itself in op).
Called(name, i) == now' = now /\ op'.name = name /\ op'.tv = i

IsTracked(i) == i \in all_instances /\ classOf[i] = "Tracked"
IsImmediate(i) == i \in all_instances /\ classOf[i] = "Immediate"

HasEvent(evs, name, i, v) == \E k \in 1..Len(evs) : evs[k].ev = name /\ evs[k].tv = i /\ evs[k].v = v

\* I1 on one queue: no two adjacent entries carry the same value.
NoAdjacentEqual(q) == \A k \in 1..(Len(q) - 1) : q[k].v # q[k + 1].v

\* C2: TrackedValue.resolve(v), in any state, sets current to v, removes the
\* earliest queued request whose value is v and no other entry (none when no
\* request matches), keeps the remaining requests in order and returns their
\* number.
C2_ResolveRemovesEarliestMatch ==
    [][\A i \in all_instances : (Called("resolve", i) /\ IsTracked(i)) =>
        LET q == requests[i]
            q2 == requests'[i]
            v == op'.arg
            hits == {k \in 1..Len(q) : q[k].v = v}
        IN /\ value'[i] = v
           /\ IF hits = {}
              THEN q2 = q
              ELSE \E k \in hits :
                     /\ \A j \in hits : k <= j
                     /\ Len(q2) = Len(q) - 1
                     /\ \A j \in 1..(k - 1) : q2[j] = q[j]
                     /\ \A j \in k..(Len(q) - 1) : q2[j] = q[j + 1]
           /\ op'.pending = Len(q2)]_vars

\* C2 witness: a resolve removed the earliest of two matching requests and a
\* later request of the same value is still queued.
C2_Witness ==
    /\ op.name = "resolve" /\ IsTracked(op.tv)
    /\ op.index = 1 /\ op.pending = 2
    /\ requests[op.tv][2].v = op.arg

\* C3: whenever resolve(v) changes current, for every v (falsy ones included),
\* on_resolve is fired with the matched request's value and enqueue time when
\* a request matched, and on_update_idle(v) is fired when the queue is empty
\* afterwards; when current did not change no event is fired.
C3_ResolveFiresEvents ==
    (op.name = "resolve" /\ IsTracked(op.tv)) =>
        IF op.update
        THEN /\ op.index # 0 =>
                  \E k \in 1..Len(fired) :
                      fired[k] = [ev |-> "on_resolve", tv |-> op.tv, v |-> op.arg, t |-> op.mtime]
             /\ op.pending = 0 => HasEvent(fired, "on_update_idle", op.tv, op.arg)
        ELSE fired = <<>>

\* C4: request(v) appends one entry at the tail and returns (old_length + 1,
\* true), except when the queue is empty and current equals v (nothing
\* changes, (0, false)) or when the last request equals v (only its timestamp
\* is refreshed, (old_length, false)); a request(v) directly after a
\* request(v) never grows the queue.
C4_RequestAppendsOrCoalesces ==
    [][\A i \in all_instances : (Called("request", i) /\ IsTracked(i)) =>
        LET q == requests[i]
            q2 == requests'[i]
            v == op'.arg
            n == Len(q)
        IN /\ value'[i] = value[i] /\ last_resolve'[i] = last_resolve[i]
           /\ IF n = 0 /\ value[i] = v
              THEN q2 = q /\ op'.pending = 0 /\ ~op'.queued
              ELSE IF n > 0 /\ q[n].v = v
              THEN /\ Len(q2) = n /\ op'.pending = n /\ ~op'.queued
                   /\ \A k \in 1..(n - 1) : q2[k] = q[k]
                   /\ q2[n] = [v |-> v, t |-> now]
              ELSE /\ q2 = Append(q, [v |-> v, t |-> now])
                   /\ op'.pending = n + 1 /\ op'.queued
           /\ (op.name = "request" /\ op.tv = i /\ op.arg = v) => Len(q2) = n]_vars

\* C4 witness: a request(v) directly after a request(v) coalesced with the
\* older tail entry of a queue of two and refreshed its timestamp.
C4_Witness ==
    /\ op.name = "request" /\ IsTracked(op.tv) /\ op.after_request
    /\ ~op.queued /\ op.pending = 2
    /\ requests[op.tv][2] = [v |-> op.arg, t |-> now]
    /\ requests[op.tv][1].t < now

\* C5 (as stated): in every reachable state no two adjacent entries of a
\* request queue carry the same value.
C5_NoAdjacentEqualAlways ==
    \A i \in all_instances : NoAdjacentEqual(requests[i])

\* C5 (amended): every request and purge call, and every resolve that removes
\* the first entry, the last entry or nothing, keeps the queue free of
\* adjacent equal values; only a resolve removing an interior entry can join
\* two equal neighbours.
C5_AdjacentEqualOnlyByInteriorResolve ==
    [][\A i \in all_instances :
        (/\ NoAdjacentEqual(requests[i])
         /\ ~(/\ Called("resolve", i)
              /\ 1 < op'.index /\ op'.index < Len(requests[i])))
        => NoAdjacentEqual(requests'[i])]_vars

\* C5 witness: a request equal to the tail of a queue of two was coalesced.
C5_Witness ==
    /\ op.name = "request" /\ IsTracked(op.tv)
    /\ ~op.queued /\ op.pending = 2
    /\ NoAdjacentEqual(requests[op.tv])

\* C6 (as stated): after request(v) immediately followed by resolve(v) the
\* queue is one entry shorter than right after the request, and current is v.
C6_RequestThenResolveShrinks ==
    [][\A i \in all_instances :
        (/\ IsTracked(i)
         /\ op.name = "request" /\ op.tv = i
         /\ Called("resolve", i) /\ op'.arg = op.arg)
        => /\ Len(requests'[i]) = Len(requests[i]) - 1
           /\ value'[i] = op.arg]_vars

\* C6 (amended): the queue is one entry shorter and current is v, unless the
\* request found the queue empty with current already v (it returned
\* (0, false)): then the queue stays empty and current stays v.
C6_RequestThenResolveShrinksUnlessSettled ==
    [][\A i \in all_instances :
        (/\ IsTracked(i)
         /\ op.name = "request" /\ op.tv = i
         /\ Called("resolve", i) /\ op'.arg = op.arg)
        => /\ Len(requests'[i]) = (IF op.pending = 0 THEN 0 ELSE Len(requests[i]) - 1)
           /\ op.pending = 0 => (requests[i] = <<>> /\ value[i] = op.arg)
           /\ value'[i] = op.arg]_vars

\* C6 witness: a resolve(v) that directly followed a queued request(v) removed
\* it from behind an older request.
C6_Witness ==
    /\ op.name = "resolve" /\ IsTracked(op.tv) /\ op.after_request
    /\ op.index = 2 /\ op.pending = 1
    /\ value[op.tv] = op.arg

\* C9 (as stated): every request(v) and resolve(v) of an ImmediateValue sets
\* current to v and emits update_idle(v) within the call, and its queue is
\* always empty.
C9_ImmediateAlwaysNotifies ==
    /\ \A i \in all_instances : IsImmediate(i) => requests[i] = <<>>
    /\ (op.name \in {"request", "resolve"} /\ IsImmediate(op.tv)) =>
          /\ value[op.tv] = op.arg
          /\ HasEvent(fired, "on_update_idle", op.tv, op.arg)

\* C9 (amended): every request(v) and resolve(v) of an ImmediateValue sets
\* current to v and emits update_idle(v) within the call exactly when v
\* differs from the previous current; its queue is always empty.
C9_ImmediateNotifiesOnChange ==
    [][\A i \in all_instances :
        (IsImmediate(i) /\ (Called("request", i) \/ Called("resolve", i))) =>
            /\ value'[i] = op'.arg
            /\ HasEvent(fired', "on_update_idle", i, op'.arg) <=> (value[i] # op'.arg)
            /\ requests[i] = <<>> /\ requests'[i] = <<>>]_vars

\* C9 witness: a request(v) on an ImmediateValue already holding v returned
\* without firing any event.
C9_Witness ==
    /\ op.name = "request" /\ IsImmediate(op.tv)
    /\ ~op.update /\ value[op.tv] = op.arg
    /\ fired = <<>>

\* The Message a command stands for.
Expected(c) ==
    DMsg(c.kind, c.channel, c.to_channel, c.v, c.text, "")

RoundTripKinds == {"Mute", "Level", "SendLevel", "Scene"}

\* C10 (as stated): the bytes of Encoder.label, color, mute, level, send_level
\* and recall_scene, fed to a Decoder with the same bank offset, yield the
\* Message of the same kind, channel(s) and value.
C10_RoundTripAllKinds ==
    stage = "done" => decoded = <<Expected(cmd)>>

\* C10 (amended): the round trip holds for mute, level, send_level and
\* recall_scene.  The bytes of Encoder.label (opcode 03) and Encoder.color
\* (opcode 06) never decode to a Label or Colour message: the Decoder knows
\* the console's report opcodes 02 and 05 only, and yields an UnknownSysex,
\* or nothing for an empty label.
C10_RoundTripOfEchoedKinds ==
    stage = "done" =>
        IF cmd.kind \in RoundTripKinds
        THEN decoded = <<Expected(cmd)>>
        ELSE \A k \in 1..Len(decoded) : decoded[k].kind = "UnknownSysex"

\* C10 witness: a send level between channels of banks that do not start at
\* channel offset 0, under a non-zero bank offset, came back unchanged.
C10_Witness ==
    /\ stage = "done" /\ cmd.kind = "SendLevel" /\ bank_offset > 0
    /\ midi_channel_index(cmd.channel) > cmd.channel.index
    /\ midi_channel_index(cmd.to_channel) > cmd.to_channel.index
    /\ decoded = <<Expected(cmd)>>

\* ---------------------------------------------------------------- C1
ChangeNames == {"change_scene", "change_color", "change_label", "change_mute",
                "change_level", "change_send_level"}

ChangeCalled == now' = now /\ op'.name \in ChangeNames

Written == wire' # <<>>

C7_PurgeAllZeroEmptiesQueues ==
    [][(Called("purge_all", TV("none", NoCh, NoCh)) /\ op'.arg = 0) =>
          /\ value' = value
          /\ \A i \in all_instances :
                 (\A k \in 1..Len(requests[i]) : requests[i][k].t < now)
                     => requests'[i] = <<>>]_vars

\* ---------------------------------------------------------------- C8
\* C8 (as stated): a sweep of the stale-request job removes every request that
\* has been unresolved for more than one second, and a sweep that removes
\* requests notifies 'Purged N stale requests' with N the number removed.
C8_SweepRemovesStaleAndNotifies ==
    [][Called("purge_stale_requests", TV("none", NoCh, NoCh)) =>
          /\ \A i \in all_instances : \A k \in 1..Len(requests'[i]) :
                 now - requests'[i][k].t <= stale_max_age
          /\ LET removed == SumOver([i \in all_instances |->
                                        Len(requests[i]) - Len(requests'[i])], all_instances)
             IN removed > 0 => op'.notified = removed]_vars

\* ------------------------------------------------------- C11 .. C14
\* A step that is one turn of the listener's loop.
ListenCalled == listener = "running" /\ inbox # <<>> /\ inbox' = Tail(inbox)

Last(q) == q[Len(q)]

\* The payload of a sysex message with the console's header, <<>> otherwise.
PayloadOf(m) ==
    IF m.type = "sysex" /\ Len(m.data) >= 7 /\ SubSeq(m.data, 1, 7) = SYSEX_HEADER
    THEN SubSeqFrom(m.data, 8) ELSE <<>>

IsColorReport(m) ==
    LET d == PayloadOf(m) IN Len(d) >= 4 /\ d[2] = ColorParameter /\ d[4] <= 7

IsShortSendLevel(m) ==
    LET d == PayloadOf(m) IN Len(d) = 5 /\ d[2] = SendLevelParameter

\* C11 (as stated): a sysex with parameter byte 05 and d[3] <= 07 decodes,
\* while the quirks flag is set, to an UnknownSysexMessage carrying a reason,
\* and with the flag cleared to the ColorMessage of channel d[2], colour d[3].
C11_QuirksModeSwitchesColor ==
    [][(ListenCalled /\ IsColorReport(Head(inbox))) =>
          LET d == PayloadOf(Head(inbox))
          IN /\ listener' = "running"
             /\ Len(decoded') = Len(decoded) + 1
             /\ IF mute_color_quirks_mode
                THEN Last(decoded').kind = "UnknownSysex" /\ Last(decoded').info # ""
                ELSE Last(decoded') =
                         DMsg("Color", from_raw_data(d[1] - bank_offset, d[3]), NoCh, d[4],
                              <<>>, "")]_vars

\* C12 (as stated): a SendLevel sysex with a 5-byte payload decodes to exactly
\* the SendLevelMessage of the 6-byte payload that has the bank offset
\* inserted at position 3.
C12_ShortSendLevelAsInserted ==
    [][(ListenCalled /\ IsShortSendLevel(Head(inbox))) =>
          LET d == PayloadOf(Head(inbox))
              d6 == SubSeq(d, 1, 3) \o <<bank_offset>> \o SubSeqFrom(d, 4)
              long == decode_sysex_data(bank_offset, mute_color_quirks_mode,
                                        SYSEX_HEADER \o d6)
          IN /\ long.kind = "SendLevel"
             /\ listener' = "running"
             /\ decoded' = Append(decoded, long)]_vars

\* C13 (as stated): feed_and_decode never raises, a sysex with an unknown bank
\* offset yields an UnknownSysexMessage, and the listener goes on with the
\* messages that follow.
C13_ReaderNeverAborts ==
    [][ListenCalled =>
          /\ listener' = "running"
          /\ LET d == PayloadOf(Head(inbox))
             IN (Len(d) >= 4 /\ from_raw_data(d[1] - bank_offset, d[3]) = Raise) =>
                    /\ Len(decoded') = Len(decoded) + 1
                    /\ Last(decoded').kind = "UnknownSysex"]_vars

\* C14: when the listener has processed a decoded SendLevelMessage of a pair
\* with a tracked send level, that tracked value's current is the message's
\* level, whatever requests are pending on it.
C14_SendLevelResolvedToLevel ==
    [][(/\ ListenCalled
        /\ listener' = "running"
        /\ Len(decoded') = Len(decoded) + 1
        /\ Last(decoded').kind = "SendLevel"
        /\ TV("send_level", Last(decoded').channel, Last(decoded').to_channel)
               \in all_instances)
       => value'[TV("send_level", Last(decoded').channel, Last(decoded').to_channel)]
              = Last(decoded').v]_vars

\* C14 witness: a send level report was resolved while a request for another
\* level stays pending on the pair.
C14_Witness ==
    /\ op.name = "listen"
    /\ op.tv = TV("send_level", ApiInput, ApiSend)
    /\ decoded # <<>> /\ Last(decoded).kind = "SendLevel"
    /\ value[op.tv] = Last(decoded).v
    /\ requests[op.tv] # <<>>
    /\ requests[op.tv][1].v # value[op.tv]

\* --------------------------------------------------- DLive: feedback routing
\* DLive._send_channels of the topology the runs exercise: one mono aux and one
\* stereo aux, and DLive._virtual_feedback_channel.
StereoSend == Ch("STEREO_AUX", 0)
send_channels == <<ApiSend, StereoSend>>
virtual_feedback_channel == Ch("MONO_MATRIX", 0)

InSeq(x, q) == \E k \in 1..Len(q) : q[k] = x

FeedbackLevelSwapped(source, send_channel) ==
    IF source = send_channel THEN VALUE_OFF ELSE VALUE_0DB

\* (Level.VALUE_OFF, Level.VALUE_0DB)[self._feedback_source == send_channel]
FeedbackLevel(source, send_channel) ==
    IF source = send_channel THEN VALUE_0DB ELSE VALUE_OFF

\* Consecutive send_bytes calls of one thread at time t: the port afterwards
\* and the byte lists that were written.
RECURSIVE WriteAll(_, _, _)
WriteAll(p, t, msgs) ==
    IF msgs = <<>>
    THEN [port |-> p, written |-> <<>>]
    ELSE LET sb == send_bytes(p, t)
             rest == WriteAll(sb.port, t, Tail(msgs))
         IN [port |-> rest.port,
             written |-> IF sb.sent THEN <<Head(msgs)>> \o rest.written ELSE rest.written]

\* The send-level messages of the loop of DLive.change_feedback_source.
FeedbackMessages(source) ==
    [k \in 1..Len(send_channels) |->
        send_level(bank_offset, send_channels[k], virtual_feedback_channel,
                   FeedbackLevel(source, send_channels[k]))]

\* The effect of DLive.change_feedback_source(channel) on the stored source,
\* the port p and the wire; NoCh stands for None.
FeedbackChange(source, p, channel) ==
    IF channel # NoCh /\ ~InSeq(channel, send_channels)
    THEN [raised |-> "IndexError", source |-> source, port |-> p, written |-> <<>>]
    ELSE LET w == WriteAll(p, now, FeedbackMessages(channel))
         IN [raised |-> "none", source |-> channel, port |-> w.port, written |-> w.written]

\* DLive.change_feedback_source
change_feedback_source(channel) ==
    /\ \E r \in {FeedbackChange(feedback_source, port, channel)} :
          /\ feedback_source' = r.source
          /\ port' = r.port
          /\ wire' = r.written
          /\ op' = [Call("change_feedback_source", TV("feedback", channel, NoCh), NoneVal)
                       EXCEPT !.raised = r.raised]
    /\ fired' = <<>>
    /\ UNCHANGED <<tvVars, now, bank_offset, cmd, stage, inbox, messages, decoded,
                   mute_color_quirks_mode, inbound, listener, last_inbound_data,
                   clock, sync, hist, layer, uiVars>>

\* ------------------------------------------------------------- DLive.sync
\* Encoder.request_label
request_label(B, channel) ==
    <<240>> \o SYSEX_HEADER \o <<B + midi_bank_offset(channel), 1, midi_channel_index(channel), 247>>

\* Encoder.request_color
request_color(B, channel) ==
    <<240>> \o SYSEX_HEADER \o <<B + midi_bank_offset(channel), 4, midi_channel_index(channel), 247>>

\* Encoder.request_mute
request_mute(B, channel) ==
    <<240>> \o SYSEX_HEADER \o
    <<B + midi_bank_offset(channel), 5, 9, midi_channel_index(channel), 247>>

\* Encoder.request_level
request_level(B, channel) ==
    <<240>> \o SYSEX_HEADER \o
    <<B + midi_bank_offset(channel), 5, 11, 23, midi_channel_index(channel), 247>>

\* Encoder.request_send_level
request_send_level(B, from_channel, to_channel) ==
    <<240>> \o SYSEX_HEADER \o
    <<B + midi_bank_offset(from_channel), 5, 15, 13, midi_channel_index(from_channel),
      B + midi_bank_offset(to_channel), midi_channel_index(to_channel), 247>>

\* The keys of DLive._mutes, _labels, _colors and _levels in insertion order,
\* and the pairs of DLive._send_levels.
sync_channels == <<ApiSend, StereoSend, ApiInput>>
sync_pairs == <<<<ApiInput, ApiSend>>, <<ApiInput, StereoSend>>>>

\* App.config.control_scenes["mixing_start"]
mixing_start == 0

\* Durations in tenths of a second: the threshold of Decoder.settled, the
\* sleeps of wait_until_settled, the interval of poll_color_updates.
settle_tenths == 8
initial_sleep == 10
retry_sleep == 1
poll_interval == 60

\* Decoder.settled
settled(t, last) == (t - last) > settle_tenths

\* The statements of DLive.sync in program order, with the colour quirks
\* flag cleared before the labels are requested.
SyncProgramEarlyClear ==
    <<"listen", "settle",
      "change_scene", "change_feedback_source",
      "quirks_on", "request_mute", "quirks_off", "request_label", "sleep", "settle",
      "request_color", "request_level", "request_send_level", "sleep", "settle",
      "execute_interval">>

\* The statements of DLive.sync in program order; wait_until_settled() is
\* "sleep" then "settle", wait_until_settled(False) is "settle".
SyncProgram ==
    <<"listen", "settle",
      "change_scene", "change_feedback_source",
      "quirks_on", "request_mute", "request_label", "sleep", "settle", "quirks_off",
      "request_color", "request_level", "request_send_level", "sleep", "settle",
      "execute_interval">>

\* The statement the sync thread is at, and whether it may run now.
Stmt == IF sync.pc = 0 THEN "none" ELSE SyncProgram[sync.pc]
Runnable == sync.pc > 0 /\ clock >= sync.wake

\* The thread moves to its next statement, no sleep pending.
Advance(s) == [s EXCEPT !.pc = s.pc + 1, !.wake = 0]

\* The messages of one request loop of sync.
RequestMessages(stmt) ==
    CASE stmt = "request_mute" ->
             [k \in 1..Len(sync_channels) |-> request_mute(bank_offset, sync_channels[k])]
      [] stmt = "request_label" ->
             [k \in 1..Len(sync_channels) |-> request_label(bank_offset, sync_channels[k])]
      [] stmt = "request_color" ->
             [k \in 1..Len(sync_channels) |-> request_color(bank_offset, sync_channels[k])]
      [] stmt = "request_level" ->
             [k \in 1..Len(sync_channels) |-> request_level(bank_offset, sync_channels[k])]
      [] stmt = "request_send_level" ->
             [k \in 1..Len(sync_pairs) |->
                 request_send_level(bank_offset, sync_pairs[k][1], sync_pairs[k][2])]

\* The history after the sync thread wrote the byte lists w.
Wrote(h, w) ==
    IF w = <<>> THEN h
    ELSE [h EXCEPT !.written = h.written \cup {w[k] : k \in 1..Len(w)}, !.last_write = clock,
                   !.quiet = FALSE]

\* The history at time t: quiet tells that at some moment since the last write
\* of the sync the decoder had been fed nothing for more than 0.8 s and the
\* write was more than 0.8 s ago.
Observed(h, t) ==
    [h EXCEPT !.quiet = h.quiet \/ (t - last_inbound_data > 8 /\ t - h.last_write > 8)]

SyncCall(stmt) == [Call("sync", TV("none", NoCh, NoCh), NoneVal) EXCEPT !.notified = sync.pc]

\* psurface.py: dlive.sync() at startup
startup_sync ==
    /\ sync.pc = 0
    /\ ~sync.poll
    /\ sync' = [sync EXCEPT !.pc = 1, !.wake = 0]
    /\ hist' = NoHist
    /\ op' = Call("sync_start", TV("none", NoCh, NoCh), NoneVal)
    /\ fired' = <<>>
    /\ wire' = <<>>
    /\ UNCHANGED <<tvVars, now, port, bank_offset, cmd, stage, inbox, messages, decoded,
                   mute_color_quirks_mode, inbound, listener, last_inbound_data,
                   clock, feedback_source, layer, uiVars>>

\* psurface.py, command 'r': TrackedValue.purge_all(0), then dlive.sync()
resync ==
    /\ sync.pc = 0
    /\ sync.poll
    /\ requests' = PurgeAllResult(requests, 0, now).requests
    /\ sync' = [sync EXCEPT !.pc = 1, !.wake = 0]
    /\ hist' = NoHist
    /\ op' = Call("sync_start", TV("none", NoCh, NoCh), NoneVal)
    /\ fired' = <<>>
    /\ wire' = <<>>
    /\ UNCHANGED <<classOf, value, last_resolve, now, port, bank_offset, cmd, stage, inbox,
                   messages, decoded, mute_color_quirks_mode, inbound, listener,
                   last_inbound_data, clock, feedback_source, layer, uiVars>>

\* self.listen(): starts the listener unless one was started before
SyncListen ==
    /\ Runnable /\ Stmt = "listen"
    /\ listener' = IF listener = "idle" THEN "running" ELSE listener
    /\ sync' = Advance(sync)
    /\ op' = SyncCall(Stmt)
    /\ fired' = <<>>
    /\ wire' = <<>>
    /\ UNCHANGED <<tvVars, now, port, bank_offset, cmd, stage, inbox, messages, decoded,
                   mute_color_quirks_mode, inbound, last_inbound_data, clock,
                   feedback_source, hist, layer, uiVars>>

\* sleep(1) of wait_until_settled
SyncSleep ==
    /\ Runnable /\ Stmt = "sleep"
    /\ sync' = [Advance(sync) EXCEPT !.wake = clock + initial_sleep]
    /\ op' = SyncCall(Stmt)
    /\ fired' = <<>>
    /\ wire' = <<>>
    /\ UNCHANGED <<tvVars, now, port, bank_offset, cmd, stage, inbox, messages, decoded,
                   mute_color_quirks_mode, inbound, listener, last_inbound_data, clock,
                   feedback_source, hist, layer, uiVars>>

\* One turn of the loop of wait_until_settled: leave it when the decoder has
\* settled, sleep(0.1) otherwise.
SyncSettle ==
    /\ Runnable /\ Stmt = "settle"
    /\ sync' = IF settled(clock, last_inbound_data) THEN Advance(sync)
               ELSE [sync EXCEPT !.wake = clock + retry_sleep]
    /\ op' = SyncCall(Stmt)
    /\ fired' = <<>>
    /\ wire' = <<>>
    /\ UNCHANGED <<tvVars, now, port, bank_offset, cmd, stage, inbox, messages, decoded,
                   mute_color_quirks_mode, inbound, listener, last_inbound_data, clock,
                   feedback_source, hist, layer, uiVars>>

\* self.change_scene(Scene(mixing_start))
SyncChangeScene ==
    /\ Runnable /\ Stmt = "change_scene"
    /\ ChangeBody("change_scene", TV("scene", NoCh, NoCh), mixing_start,
                  Cmd("Scene", NoCh, NoCh, mixing_start, <<>>))
    /\ sync' = Advance(sync)
    /\ hist' = Wrote(hist, wire')
    /\ UNCHANGED <<classOf, now, bank_offset, cmd, stage, inbox, messages, decoded,
                   mute_color_quirks_mode, inbound, listener, last_inbound_data, clock,
                   feedback_source, layer, uiVars>>

\* self.change_feedback_source()
SyncFeedback ==
    /\ Runnable /\ Stmt = "change_feedback_source"
    /\ \E r \in {FeedbackChange(feedback_source, port, NoCh)} :
          /\ feedback_source' = r.source
          /\ port' = r.port
          /\ wire' = r.written
          /\ hist' = Wrote(hist, r.written)
    /\ sync' = Advance(sync)
    /\ op' = SyncCall(Stmt)
    /\ fired' = <<>>
    /\ UNCHANGED <<tvVars, now, bank_offset, cmd, stage, inbox, messages, decoded,
                   mute_color_quirks_mode, inbound, listener, last_inbound_data, clock,
                   layer, uiVars>>

\* self._decoder.mute_color_quirks_mode = True / = False
SyncQuirks ==
    /\ Runnable /\ Stmt \in {"quirks_on", "quirks_off"}
    /\ mute_color_quirks_mode' = (Stmt = "quirks_on")
    /\ hist' = IF Stmt = "quirks_on" THEN [hist EXCEPT !.set = TRUE]
               ELSE [hist EXCEPT !.cleared = TRUE]
    /\ sync' = Advance(sync)
    /\ op' = SyncCall(Stmt)
    /\ fired' = <<>>
    /\ wire' = <<>>
    /\ UNCHANGED <<tvVars, now, port, bank_offset, cmd, stage, inbox, messages, decoded,
                   inbound, listener, last_inbound_data, clock, feedback_source, layer, uiVars>>

\* One of the request loops of sync: a request per key, written at once.
SyncRequest ==
    /\ Runnable
    /\ Stmt \in {"request_mute", "request_label", "request_color", "request_level",
                 "request_send_level"}
    /\ \E w \in {WriteAll(port, now, RequestMessages(Stmt))} :
          /\ port' = w.port
          /\ wire' = w.written
          /\ hist' = Wrote(hist, w.written)
    /\ sync' = Advance(sync)
    /\ op' = SyncCall(Stmt)
    /\ fired' = <<>>
    /\ UNCHANGED <<tvVars, now, bank_offset, cmd, stage, inbox, messages, decoded,
                   mute_color_quirks_mode, inbound, listener, last_inbound_data, clock,
                   feedback_source, layer, uiVars>>

\* App.scheduler.execute_interval("poll_color_updates", 6, ...), the last
\* statement of sync
SyncInstallPoll ==
    /\ Runnable /\ Stmt = "execute_interval"
    /\ sync' = [sync EXCEPT !.pc = 0, !.wake = 0, !.poll = TRUE, !.due = clock + poll_interval]
    /\ op' = SyncCall(Stmt)
    /\ fired' = <<>>
    /\ wire' = <<>>
    /\ UNCHANGED <<tvVars, now, port, bank_offset, cmd, stage, inbox, messages, decoded,
                   mute_color_quirks_mode, inbound, listener, last_inbound_data, clock,
                   feedback_source, hist, layer, uiVars>>

\* poll_color_updates, the interval job a finished sync installed, run by the
\* scheduler's thread
poll_color_updates ==
    /\ sync.poll
    /\ clock >= sync.due
    /\ \E w \in {WriteAll(port, now, RequestMessages("request_color"))} :
          /\ port' = w.port
          /\ wire' = w.written
    /\ sync' = [sync EXCEPT !.due = sync.due + poll_interval]
    /\ op' = Call("poll_color_updates", TV("none", NoCh, NoCh), NoneVal)
    /\ fired' = <<>>
    /\ UNCHANGED <<tvVars, now, bank_offset, cmd, stage, inbox, messages, decoded,
                   mute_color_quirks_mode, inbound, listener, last_inbound_data, clock,
                   feedback_source, hist, layer, uiVars>>

\* A tenth of a second passes: while the sync thread sleeps, or between two
\* syncs; the statements of sync that do not sleep take no time.
TickTenth ==
    /\ clock < MaxClock
    /\ clock < sync.wake \/ (sync.pc = 0 /\ sync.poll)
    /\ clock' = clock + 1
    /\ now' = (clock + 1) \div 10
    /\ hist' = Observed(hist, clock + 1)
    /\ UNCHANGED <<tvVars, op, fired, wire, port, bank_offset, cmd, stage, inbox, messages,
                   decoded, mute_color_quirks_mode, inbound, listener, last_inbound_data,
                   feedback_source, sync, layer, uiVars>>

\* The console's report during a sync: a colour report of input 1.
SyncReports == {Sysex(<<bank_offset, ColorParameter, 0, 3>>)}

\* The console sends a report and the inbound port parses it for the
\* iteration of the listener.
ConsoleReply ==
    /\ listener = "running"
    /\ inbox = <<>>
    /\ Len(decoded) < MaxReplies
    /\ \E r \in SyncReports : inbox' = MidiParse(r)
    /\ UNCHANGED <<tvVars, now, callVars, wire, port, bank_offset, cmd, stage, messages,
                   decoded, mute_color_quirks_mode, inbound, listener, last_inbound_data,
                   sessVars>>

\* -------------------------------------------- specification of the session
SyncInstances ==
    [i \in {TV("scene", NoCh, NoCh), TV("mute", ApiInput, NoCh), TV("color", ApiInput, NoCh)}
        |-> IF Kind(i) = "color" THEN "Immediate" ELSE "Tracked"]

\* The session at startup, or after an earlier sync whose colour poll is due
\* PollDue tenths from now.
InitSync ==
    /\ classOf = SyncInstances
    /\ value = [i \in DOMAIN classOf |-> NoneVal]
    /\ last_resolve = [i \in DOMAIN classOf |-> NoneVal]
    /\ requests = [i \in DOMAIN classOf |-> <<>>]
    /\ clock = settle_tenths + 1
    /\ now = clock \div 10
    /\ op = NoOp
    /\ fired = <<>>
    /\ wire = <<>>
    /\ port = NewPort(0)
    /\ bank_offset = 0
    /\ cmd = NoCmd
    /\ stage = "idle"
    /\ inbox = <<>>
    /\ messages = <<>>
    /\ decoded = <<>>
    /\ mute_color_quirks_mode = FALSE
    /\ inbound = <<>>
    /\ last_inbound_data = 0
    /\ feedback_source = NoCh
    /\ hist = NoHist
    /\ layer = NoLayer
    /\ UiIdle
    /\ \E again \in BOOLEAN :
          /\ listener = IF again THEN "running" ELSE "idle"
          /\ sync = [NoSync EXCEPT !.poll = again, !.due = IF again THEN clock + PollDue ELSE 0]

NextSync ==
    \/ startup_sync
    \/ resync
    \/ SyncListen
    \/ SyncSleep
    \/ SyncSettle
    \/ SyncChangeScene
    \/ SyncFeedback
    \/ SyncQuirks
    \/ SyncRequest
    \/ SyncInstallPoll
    \/ poll_color_updates
    \/ TickTenth
    \/ ConsoleReply
    \/ ListenStep

SpecSync == InitSync /\ [][NextSync]_vars

\* ------------------------------------ specification of the feedback routing
\* A session under any bank offset, with the tracked send level of input 1 to
\* aux 1.
InitFeedback ==
    /\ classOf = [i \in {TV("send_level", ApiInput, ApiSend)} |-> "Tracked"]
    /\ value = [i \in DOMAIN classOf |-> NoneVal]
    /\ last_resolve = [i \in DOMAIN classOf |-> NoneVal]
    /\ requests = [i \in DOMAIN classOf |-> <<>>]
    /\ now = 0
    /\ op = NoOp
    /\ fired = <<>>
    /\ wire = <<>>
    /\ port = NewPort(0)
    /\ bank_offset \in 0..MaxBankOffset
    /\ cmd = NoCmd
    /\ stage = "idle"
    /\ inbox = <<>>
    /\ messages = <<>>
    /\ decoded = <<>>
    /\ mute_color_quirks_mode = FALSE
    /\ ExtIdle

NextFeedback ==
    \/ \E ch \in {NoCh, ApiSend, StereoSend, ApiInput, virtual_feedback_channel} :
           change_feedback_source(ch)
    \/ \E lv \in ApiValues("send_level") : change_send_level(ApiInput, ApiSend, lv)

SpecFeedback == InitFeedback /\ [][NextFeedback]_vars

\* ------------------------------------------------------ claims C15 .. C16
\* The sync thread ran a statement.
SyncMoved == sync'.pc # sync.pc

\* The requests of the protocol by their bytes: opcode 1 label, 4 colour,
\* 5 9 mute, 5 11 level, 5 15 send level.
IsRequestLabel(m) == Len(m) = 12 /\ m[1] = 240 /\ m[10] = 1
IsRequestColor(m) == Len(m) = 12 /\ m[1] = 240 /\ m[10] = 4
IsRequestMute(m) == Len(m) = 13 /\ m[1] = 240 /\ m[10] = 5 /\ m[11] = 9
IsRequestLevel(m) == Len(m) = 14 /\ m[1] = 240 /\ m[10] = 5 /\ m[11] = 11
IsRequestSendLevel(m) == Len(m) = 16 /\ m[1] = 240 /\ m[10] = 5 /\ m[11] = 15

\* C15: within DLive.sync, request_mute is written only with the quirks flag
\* set; the flag is cleared only when a request_mute and a request_label of
\* every channel have been written and, at some moment since the last of
\* them, the decoder had been fed nothing for more than 0.8 s; the colour,
\* level and send-level requests of the sync are written only after it
\* cleared the flag.
C15_QuirksWindowOfSync ==
    [][/\ (SyncMoved /\ \E k \in 1..Len(wire') : IsRequestMute(wire'[k]))
             => mute_color_quirks_mode
       /\ (mute_color_quirks_mode /\ ~mute_color_quirks_mode')
             => /\ \A k \in 1..Len(sync_channels) :
                      /\ request_mute(bank_offset, sync_channels[k]) \in hist.written
                      /\ request_label(bank_offset, sync_channels[k]) \in hist.written
                /\ hist.quiet
       /\ (SyncMoved /\ \E k \in 1..Len(wire') :
                \/ IsRequestColor(wire'[k])
                \/ IsRequestLevel(wire'[k])
                \/ IsRequestSendLevel(wire'[k]))
             => ~mute_color_quirks_mode /\ hist.cleared]_vars

\* C15 witness: the sync wrote its colour requests after a colour report was
\* suppressed in its quirks window.
C15_Witness ==
    /\ op.name = "sync"
    /\ hist.set /\ hist.cleared
    /\ wire # <<>> /\ IsRequestColor(wire[1])
    /\ decoded # <<>> /\ decoded[1].kind = "UnknownSysex"
    /\ last_inbound_data > hist.last_write - initial_sleep

\* C16: change_feedback_source(channel) for None or a send channel stores the
\* channel, writes one send-level message to the feedback channel per send
\* channel, in order, at 0 dB from the stored channel and off from the others,
\* and queues nothing; for any other channel it raises IndexError, writes
\* nothing and keeps the stored source.
C16_FeedbackSourceWrites ==
    [][(op'.name = "change_feedback_source" /\ op' # op) =>
          LET channel == op'.tv[2]
          IN /\ requests' = requests
             /\ IF channel = NoCh \/ channel \in {ApiSend, StereoSend}
                THEN /\ op'.raised = "none"
                     /\ feedback_source' = channel
                     /\ wire' = <<send_level(bank_offset, ApiSend, virtual_feedback_channel,
                                             IF channel = ApiSend THEN VALUE_0DB ELSE VALUE_OFF),
                                  send_level(bank_offset, StereoSend, virtual_feedback_channel,
                                             IF channel = StereoSend THEN VALUE_0DB
                                             ELSE VALUE_OFF)>>
                ELSE /\ op'.raised = "IndexError"
                     /\ wire' = <<>>
                     /\ feedback_source' = feedback_source]_vars

\* C16 witness: a call for a channel that is no send channel was refused while
\* the feedback came from the stereo aux and a send level request was pending.
C16_Witness ==
    /\ op.name = "change_feedback_source"
    /\ op.tv[2] = ApiInput
    /\ op.raised = "IndexError"
    /\ feedback_source = StereoSend
    /\ requests[TV("send_level", ApiInput, ApiSend)] # <<>>

\* ------------------------------------------- LayerController (dlive/virtual)
\* DLive.input_channels of the topology the runs exercise; the aux channels
\* are send_channels, no fx channel is configured.
Input2 == Ch("INPUT", 1)
input_channels == <<ApiInput, Input2>>

\* The virtual channels of the session, one strip each.
NumStrips == 16

\* App.config.control_scenes but virtual_right; a Scene is its number.
scene_config ==
    [mixing_start |-> mixing_start, virtual_left_start |-> 8, sends |-> 20,
     custom_aux |-> 21, custom_fx |-> 22, custom_util |-> 23]

\* control_scenes["virtual_right"]: one of the mixing scenes, one of the scenes
\* of virtual left, or the scene after them (the configuration checks no overlap)
VirtualRightChoices == {scene_config.mixing_start + 1,
                        scene_config.virtual_left_start + 1,
                        scene_config.virtual_left_start + 6}

\* Scene.with_offset
with_offset(scene, offset) == scene + offset

\* Label.has_name: not all digits or blank
has_name(text) == \E k \in 1..Len(text) : text[k] \notin (48..57) \cup {32}

\* VirtualChannel: _mode, _base_channel, _to_channel
VStrip(mode, base, to) == [mode |-> mode, base |-> base, to |-> to]

\* LayerController.__init__ with virtual_right = vr; queue is the queue of
\* the AsyncEvent api.on_update_scene, reconfigure the call _reconfigure_callback
\* makes.
NewLayer(vr) ==
    [mode |-> "MIXING", bank |-> 0,
     last_output_channel |-> send_channels[1], last_input_channel |-> input_channels[1],
     channel_filter |-> FALSE, selected_channel |-> NoCh,
     strips |-> [k \in 0..(NumStrips - 1) |-> VStrip("NONE", NoCh, NoCh)],
     virtual_right |-> vr,
     reconfigure |-> [what |-> "none", channel |-> NoCh],
     queue |-> <<>>]

\* DLive.get_scene
get_scene == IF value[TV("scene", NoCh, NoCh)] = NoneVal THEN 0 ELSE value[TV("scene", NoCh, NoCh)]

\* self._dlive.get_label(ch).has_name
LabelHasName(ch) ==
    LET l == value[TV("label", ch, NoCh)]
    IN l # NoneVal /\ has_name(LabelTable[l + 1])

\* The test of the send level that takes every known level for an open send.
SendLevelIsKnown(ch, to) == value[TV("send_level", ch, to)] # NoneVal

\* DLive.get_send_level(ch, to) != Level.VALUE_OFF
SendLevelIsOn(ch, to) ==
    LET lv == value[TV("send_level", ch, to)]
    IN lv # NoneVal /\ lv # VALUE_OFF

Min(a, b) == IF a < b THEN a ELSE b

\* The strips after binding the shown channels from strip 0 on, at most
\* `most`, and tying the strips after them to zero up to strip 14.
BindShown(strips, shown, most, bound) ==
    LET v_index == Min(Len(shown), most)
    IN [k \in 0..(NumStrips - 1) |->
           IF k < v_index THEN bound[k + 1]
           ELSE IF k < 15 THEN VStrip("TIE_TO_ZERO", NoCh, NoCh)
           ELSE strips[k]]

\* LayerController._configure_outputs on the context c: the controller, the
\* stored feedback source, the port and what the call has written so far.
\* A strip's writes of its own label, colour, mute and level go to the tracked
\* values of the virtual channels, which the runs do not hold.
ConfigureOutputs(c, output_channel) ==
    LET L == c.layer
        max_index == Len(input_channels) - 1
        channel_from == IF L.channel_filter THEN 0 ELSE Min(L.bank * 16, max_index)
        channel_to == IF L.channel_filter THEN max_index ELSE Min(channel_from + 14, max_index)
        ranged == [k \in 1..(channel_to - channel_from) |-> input_channels[channel_from + k]]
        Show(ch) == LabelHasName(ch) /\ (~L.channel_filter \/ SendLevelIsOn(ch, output_channel))
        shown == SelectSeq(ranged, Show)
        bound == [k \in 1..Len(shown) |-> VStrip("TRACK_SEND_LEVEL", shown[k], output_channel)]
        fb == FeedbackChange(c.source, c.port, output_channel)
    IN [c EXCEPT !.layer.reconfigure = [what |-> "outputs", channel |-> output_channel],
                 !.layer.strips = [BindShown(L.strips, shown, 15, bound) EXCEPT
                                      ![15] = VStrip("TRACK_MASTER_LEVEL", output_channel, NoCh)],
                 !.source = fb.source, !.port = fb.port, !.written = c.written \o fb.written]

\* LayerController._configure_sends_on_fader, the sends target being the aux
\* channels
ConfigureSendsOnFader(c, input_channel) ==
    LET L == c.layer
        Show(ch) == LabelHasName(ch) /\ (~L.channel_filter \/ SendLevelIsOn(input_channel, ch))
        shown == SelectSeq(send_channels, Show)
        bound == [k \in 1..Len(shown) |-> VStrip("TRACK_SEND_LEVEL", input_channel, shown[k])]
        fb == FeedbackChange(c.source, c.port, NoCh)
    IN [c EXCEPT !.layer.reconfigure = [what |-> "sends", channel |-> input_channel],
                 !.layer.strips = BindShown(L.strips, shown, 16, bound),
                 !.source = fb.source, !.port = fb.port, !.written = c.written \o fb.written]

\* self._reconfigure_callback()
Reconfigure(c) ==
    CASE c.layer.reconfigure.what = "outputs" -> ConfigureOutputs(c, c.layer.reconfigure.channel)
      [] c.layer.reconfigure.what = "sends" ->
             ConfigureSendsOnFader(c, c.layer.reconfigure.channel)
      [] OTHER -> c

\* A branch of _on_scene_change that selects no channel and clears the feedback.
Unselect(c, mode, bank) ==
    LET fb == FeedbackChange(c.source, c.port, NoCh)
    IN [c EXCEPT !.layer.mode = mode, !.layer.bank = bank, !.layer.selected_channel = NoCh,
                 !.source = fb.source, !.port = fb.port, !.written = c.written \o fb.written]

\* _on_scene_change with the branch of virtual_right after that of virtual left
OnSceneChangeRangeFirst(c, scene) ==
    LET L == c.layer
        cfg == scene_config
    IN IF cfg.virtual_left_start <= scene /\ scene < cfg.virtual_left_start + 6
       THEN LET o == ConfigureOutputs(
                         [c EXCEPT !.layer.mode = "OUTPUTS",
                                   !.layer.bank = scene - cfg.virtual_left_start],
                         L.last_output_channel)
            IN [o EXCEPT !.layer.selected_channel = L.last_output_channel]
       ELSE c

\* LayerController._on_scene_change
OnSceneChange(c, scene) ==
    LET L == c.layer
        cfg == scene_config
    IN IF cfg.mixing_start <= scene /\ scene < cfg.mixing_start + 6
       THEN Unselect(c, "MIXING", scene - cfg.mixing_start)
       ELSE IF scene = L.virtual_right
       THEN c
       ELSE IF cfg.virtual_left_start <= scene /\ scene < cfg.virtual_left_start + 6
       THEN LET o == ConfigureOutputs(
                         [c EXCEPT !.layer.mode = "OUTPUTS",
                                   !.layer.bank = scene - cfg.virtual_left_start],
                         L.last_output_channel)
            IN [o EXCEPT !.layer.selected_channel = L.last_output_channel]
       ELSE IF scene = cfg.sends
       THEN ConfigureSendsOnFader(
                [c EXCEPT !.layer.mode = "SENDS_ON_FADER",
                          !.layer.selected_channel = L.last_input_channel],
                L.last_input_channel)
       ELSE IF scene = cfg.custom_aux THEN Unselect(c, "CUSTOM_AUX", L.bank)
       ELSE IF scene = cfg.custom_fx THEN Unselect(c, "CUSTOM_FX", L.bank)
       ELSE IF scene = cfg.custom_util THEN Unselect(c, "CUSTOM_UTIL", L.bank)
       ELSE c

\* The context a call of the controller starts from.
Context == [layer |-> layer, source |-> feedback_source, port |-> port, written |-> <<>>,
            value |-> value, last_resolve |-> last_resolve, requests |-> requests,
            handled |-> NoneVal, queued |-> FALSE]

\* The scene handler run by the calling thread itself.
CallHandler(c, scene) == [OnSceneChange(c, scene) EXCEPT !.handled = scene]

\* DLive.change_scene on the context: the request of the tracked scene and the
\* write of a queued one.
CallScene(c, scene) ==
    LET i == TV("scene", NoCh, NoCh)
        rq == RequestOn(i, scene)
        sb == send_bytes(c.port, now)
    IN [c EXCEPT !.requests = [c.requests EXCEPT ![i] = rq.requests],
                 !.queued = rq.queued,
                 !.port = IF ShouldSend(rq.queued) THEN sb.port ELSE c.port,
                 !.written = IF ShouldSend(rq.queued) /\ sb.sent
                             THEN c.written \o <<recall_scene(bank_offset, scene)>>
                             ELSE c.written]

\* _call_scene_or_handler without the test of the current scene
CallSceneAlways(c, scene) == CallScene(c, scene)

\* LayerController._call_scene_or_handler: the handler for the current scene,
\* DLive.change_scene otherwise.
CallSceneOrHandler(c, scene) ==
    IF scene = get_scene THEN CallHandler(c, scene) ELSE CallScene(c, scene)

\* The state after a call of the controller that ended in context c.
Commit(c, name, channel, scene) ==
    /\ Len(c.requests[TV("scene", NoCh, NoCh)]) <= MaxPending
    /\ layer' = c.layer
    /\ feedback_source' = c.source
    /\ port' = c.port
    /\ wire' = c.written
    /\ requests' = c.requests
    /\ op' = [Call(name, TV("layer", channel, NoCh), scene) EXCEPT
                  !.queued = c.queued, !.handled = c.handled]
    /\ fired' = <<>>
    /\ UNCHANGED <<classOf, value, last_resolve, now, bank_offset, cmd, stage, inbox, messages,
                   decoded, mute_color_quirks_mode, inbound, listener, last_inbound_data,
                   clock, sync, hist, uiVars>>

\* LayerController.select_mixing_mode
select_mixing_mode ==
    LET c0 == IF layer.channel_filter
              THEN Reconfigure([Context EXCEPT !.layer.channel_filter = FALSE])
              ELSE Context
        scene == with_offset(scene_config.mixing_start, layer.bank)
    IN \E c \in {CallSceneOrHandler(c0, scene)} : Commit(c, "select_mixing_mode", NoCh, scene)

\* LayerController.select_output
select_output(output_channel) ==
    LET c0 == [Context EXCEPT !.layer.last_output_channel = output_channel]
        c1 == IF layer.mode # "OUTPUTS" /\ get_scene # layer.virtual_right
              THEN OnSceneChange(c0, layer.virtual_right)
              ELSE c0
        scene == with_offset(scene_config.virtual_left_start, c1.layer.bank)
    IN \E c \in {CallSceneOrHandler(c1, scene)} :
          Commit(c, "select_output", output_channel, scene)

\* LayerController.select_input
select_input(input_channel) ==
    LET c0 == [Context EXCEPT !.layer.last_input_channel = input_channel]
    IN \E c \in {CallSceneOrHandler(c0, scene_config.sends)} :
          Commit(c, "select_input", input_channel, scene_config.sends)

\* LayerController.toggle_channel_filter
toggle_channel_filter ==
    \E c \in {Reconfigure([Context EXCEPT !.layer.channel_filter = ~layer.channel_filter])} :
       Commit(c, "toggle_channel_filter", NoCh, NoneVal)

\* The listener's turn for a decoded SceneMessage: the resolve of the tracked
\* scene, whose on_update_idle is api.on_update_scene; AsyncEvent.__call__ puts
\* the scene on the event's queue. The console reports the next scene when the
\* worker has taken the last one.
SceneArrives(scene) ==
    LET i == TV("scene", NoCh, NoCh)
        rs == ResolveOn(i, scene)
        idle == \E k \in 1..Len(rs.fired) : rs.fired[k].ev = "on_update_idle"
    IN /\ layer.queue = <<>>
       /\ value' = [value EXCEPT ![i] = rs.value]
       /\ last_resolve' = [last_resolve EXCEPT ![i] = rs.last_resolve]
       /\ requests' = [requests EXCEPT ![i] = rs.requests]
       /\ fired' = rs.fired
       /\ layer' = IF idle THEN [layer EXCEPT !.queue = Append(layer.queue, scene)] ELSE layer
       /\ op' = [Call("listen", i, scene) EXCEPT !.pending = rs.remaining, !.index = rs.index,
                     !.mtime = rs.mtime, !.update = rs.update]
       /\ wire' = <<>>
       /\ UNCHANGED <<classOf, now, port, bank_offset, cmd, stage, inbox, messages, decoded,
                      mute_color_quirks_mode, inbound, listener, last_inbound_data,
                      clock, feedback_source, sync, hist, uiVars>>

\* AsyncEvent._worker of api.on_update_scene: the next queued scene goes to
\* LayerController._on_scene_change.
SceneWorker ==
    /\ layer.queue # <<>>
    /\ \E c \in {CallHandler([Context EXCEPT !.layer.queue = Tail(layer.queue)],
                              Head(layer.queue))} :
          Commit(c, "on_scene_change", NoCh, Head(layer.queue))

\* ------------------------------------- specification of the layer controller
\* The session after a sync: the channels are named "A", the send of input 1
\* to aux 1 is up, the other send levels are not known yet.
LayerInstances ==
    [i \in {TV("scene", NoCh, NoCh)}
           \cup {TV("label", ch, NoCh) : ch \in {ApiInput, Input2, ApiSend, StereoSend}}
           \cup {TV("send_level", ch, to) : ch \in {ApiInput, Input2},
                                             to \in {ApiSend, StereoSend}}
        |-> "Tracked"]

InitLayer ==
    /\ classOf = LayerInstances
    /\ value = [i \in DOMAIN classOf |->
                   CASE Kind(i) = "scene" -> NoneVal
                     [] Kind(i) = "label" -> 1
                     [] Kind(i) = "send_level" ->
                            IF i[2] = ApiInput /\ i[3] = ApiSend THEN VALUE_0DB ELSE NoneVal]
    /\ last_resolve = [i \in DOMAIN classOf |-> NoneVal]
    /\ requests = [i \in DOMAIN classOf |-> <<>>]
    /\ now = 0
    /\ op = NoOp
    /\ fired = <<>>
    /\ wire = <<>>
    /\ port = NewPort(0)
    /\ bank_offset = 0
    /\ cmd = NoCmd
    /\ stage = "idle"
    /\ inbox = <<>>
    /\ messages = <<>>
    /\ decoded = <<>>
    /\ mute_color_quirks_mode = FALSE
    /\ inbound = <<>>
    /\ listener = "running"
    /\ last_inbound_data = 0
    /\ clock = 0
    /\ feedback_source = NoCh
    /\ sync = NoSync
    /\ hist = NoHist
    /\ UiIdle
    /\ \E vr \in VirtualRightChoices : layer = NewLayer(vr)

\* The scenes the console reports: mixing banks 1 and 2, virtual left banks 1
\* and 2, the scene after virtual left, sends.
LayerScenes == {0, 1, 8, 9, 14, 20}

NextLayer ==
    \/ \E scene \in LayerScenes : SceneArrives(scene)
    \/ SceneWorker
    \/ select_mixing_mode
    \/ select_output(StereoSend)
    \/ select_input(Input2)
    \/ toggle_channel_filter

SpecLayer == InitLayer /\ [][NextLayer]_vars

\* ------------------------------------------------------- claims C17 .. C20
\* The step is the scene worker's call of _on_scene_change.
SceneHandled == op'.name = "on_scene_change"

InMixingRange(scene) ==
    scene_config.mixing_start <= scene /\ scene < scene_config.mixing_start + 6

InLeftRange(scene) ==
    scene_config.virtual_left_start <= scene /\ scene < scene_config.virtual_left_start + 6

\* The call of the step has transmitted a recall of the scene.
Recalled(scene) == InSeq(recall_scene(bank_offset, scene), wire')

AnyRecall == \E scene \in 0..(scene_config.custom_util + 6) : Recalled(scene)

\* C17: when the handler has taken a scene of the mixing range, the controller
\* is in mode MIXING with the bank of that scene, no channel is selected, every
\* virtual strip is unbound and the feedback source is cleared.
C17_MixingSceneUnbinds ==
    [][(SceneHandled /\ InMixingRange(op'.arg)) =>
          /\ layer'.mode = "MIXING"
          /\ layer'.bank = op'.arg - scene_config.mixing_start
          /\ layer'.selected_channel = NoCh
          /\ \A k \in 0..(NumStrips - 1) : layer'.strips[k].mode = "NONE"
          /\ feedback_source' = NoCh]_vars

\* C18: when the handler has taken a scene of the virtual-left range other
\* than virtual_right, the controller is in mode OUTPUTS with the bank of that
\* scene, the strips are configured for the remembered output channel, and
\* the call has transmitted a recall of virtual_right.
C18_LeftSceneLoadsRight ==
    [][(SceneHandled /\ InLeftRange(op'.arg) /\ op'.arg # layer.virtual_right) =>
          /\ layer'.mode = "OUTPUTS"
          /\ layer'.bank = op'.arg - scene_config.virtual_left_start
          /\ layer'.strips[15] = VStrip("TRACK_MASTER_LEVEL", layer.last_output_channel, NoCh)
          /\ Recalled(layer.virtual_right)]_vars

\* What the claims of the scene handler call the state of the controller.
Shown == <<layer.mode, layer.bank, layer.selected_channel, layer.strips, feedback_source>>

\* C19 as stated: when the handler has taken the scene virtual_right, mode,
\* bank, selected channel, every strip and the feedback source are as before
\* and the call has transmitted no recall.
C19_RightSceneIgnored ==
    [][(SceneHandled /\ op'.arg = layer.virtual_right) =>
          (Shown' = Shown /\ ~AnyRecall)]_vars

\* C19 amended: the same when virtual_right is none of the six mixing scenes.
C19_RightSceneIgnoredOutsideMixing ==
    [][(SceneHandled /\ op'.arg = layer.virtual_right /\ ~InMixingRange(layer.virtual_right)) =>
          (Shown' = Shown /\ ~AnyRecall)]_vars

\* The handler has taken virtual_right, a scene of virtual left here, in mode
\* SENDS_ON_FADER with bound strips.
C19_Witness ==
    /\ op.name = "on_scene_change"
    /\ op.arg = layer.virtual_right
    /\ InLeftRange(layer.virtual_right)
    /\ layer.mode = "SENDS_ON_FADER"
    /\ layer.strips[0].mode = "TRACK_SEND_LEVEL"

\* The step is one of the three selecting calls; op'.arg is its target scene.
Selected == op'.name \in {"select_mixing_mode", "select_output", "select_input"}

\* The target of the call and, for select_output and select_input, the channel
\* it has stored; a handler run for a scene of virtual left or for sends has
\* configured the strips for that channel.
TargetAndStored ==
    /\ op'.name = "select_mixing_mode" =>
          op'.arg = scene_config.mixing_start + layer'.bank
    /\ op'.name = "select_output" =>
          /\ op'.arg = scene_config.virtual_left_start + layer'.bank
          /\ layer'.last_output_channel = op'.tv[2]
          /\ (op'.handled = op'.arg /\ op'.arg # layer.virtual_right) =>
                /\ layer'.selected_channel = op'.tv[2]
                /\ layer'.strips[15] = VStrip("TRACK_MASTER_LEVEL", op'.tv[2], NoCh)
    /\ op'.name = "select_input" =>
          /\ op'.arg = scene_config.sends
          /\ layer'.last_input_channel = op'.tv[2]
          /\ (op'.handled = op'.arg /\ op'.arg # layer.virtual_right) =>
                /\ layer'.selected_channel = op'.tv[2]
                /\ layer'.reconfigure = [what |-> "sends", channel |-> op'.tv[2]]

\* The current scene is the target: the handler has run for it, nothing recalled.
HandledDirectly == op'.handled = op'.arg /\ ~AnyRecall

\* The tracked scene's last pending request asks for the scene already.
AlreadyRequested(scene) ==
    LET q == requests[TV("scene", NoCh, NoCh)]
    IN q # <<>> /\ q[Len(q)].v = scene

OutputsConfigured ==
    \/ /\ op'.name \in {"on_scene_change", "select_output"}
       /\ op'.handled # NoneVal
       /\ InLeftRange(op'.handled)
       /\ op'.handled # layer.virtual_right
    \/ /\ op'.name = "toggle_channel_filter"
       /\ layer.reconfigure.what = "outputs"

\* The input channels of the window the claim describes: 15 consecutive
\* channels from index bank * 16, as far as there are inputs.
ClaimedWindow(bank) ==
    LET from == bank * 16
        to == Min(from + 14, Len(input_channels) - 1)
    IN [k \in 1..(IF to >= from THEN to - from + 1 ELSE 0) |-> input_channels[from + k]]

\* C21: with the channel filter off, a configuration of OUTPUTS for output O
\* in bank b binds the strips 0..14 in order to the send levels towards O of
\* the 15 consecutive inputs from index b * 16 (clipped to the inputs), ties
\* the unfilled strips of 0..14 to zero, binds strip 15 to the master of O and
\* routes the feedback to O.
C21_OutputsWindowOfFifteen ==
    [][(OutputsConfigured /\ ~layer'.channel_filter) =>
          LET O == layer'.reconfigure.channel
              w == ClaimedWindow(layer'.bank)
          IN /\ \A k \in 0..14 :
                   layer'.strips[k] = IF k < Len(w)
                                      THEN VStrip("TRACK_SEND_LEVEL", w[k + 1], O)
                                      ELSE VStrip("TIE_TO_ZERO", NoCh, NoCh)
             /\ layer'.strips[15] = VStrip("TRACK_MASTER_LEVEL", O, NoCh)
             /\ feedback_source' = O]_vars

\* --------------------------- specification of the filtered OUTPUTS view
\* The listener's turn for a decoded SendLevelMessage: the resolve of the
\* tracked send level. Its on_update_idle is api.on_update_send_level, to
\* which the layer controller does not subscribe.
SendLevelArrives(ch, to, lv) ==
    LET i == TV("send_level", ch, to)
        rs == ResolveOn(i, lv)
    IN /\ value' = [value EXCEPT ![i] = rs.value]
       /\ last_resolve' = [last_resolve EXCEPT ![i] = rs.last_resolve]
       /\ requests' = [requests EXCEPT ![i] = rs.requests]
       /\ fired' = rs.fired
       /\ op' = [Call("listen", i, lv) EXCEPT !.pending = rs.remaining, !.index = rs.index,
                     !.mtime = rs.mtime, !.update = rs.update]
       /\ wire' = <<>>
       /\ UNCHANGED <<classOf, now, port, bank_offset, cmd, stage, inbox, messages, decoded,
                      mute_color_quirks_mode, inbound, listener, last_inbound_data,
                      clock, feedback_source, sync, hist, layer, uiVars>>

\* The session of InitLayer with virtual_right after the scenes of virtual left.
InitFilter ==
    /\ InitLayer
    /\ layer.virtual_right = scene_config.virtual_left_start + 6

FilterScenes == {scene_config.mixing_start, scene_config.virtual_left_start}

NextFilter ==
    \/ \E scene \in FilterScenes : SceneArrives(scene)
    \/ SceneWorker
    \/ select_output(StereoSend)
    \/ toggle_channel_filter
    \/ \E to \in {ApiSend, StereoSend}, lv \in {VALUE_OFF, VALUE_0DB} :
          SendLevelArrives(ApiInput, to, lv)

SpecFilter == InitFilter /\ [][NextFilter]_vars

\* The tracked send level is OFF, or not known yet (the fallback of
\* get_send_level is OFF).
SendIsOff(ch, to) == value[TV("send_level", ch, to)] \in {NoneVal, VALUE_OFF}

\* C22 as stated: in mode OUTPUTS with the channel filter on, no strip is
\* bound to a source whose send level to the selected output is OFF.
C22_NoStripOfSilentSource ==
    (layer.mode = "OUTPUTS" /\ layer.channel_filter) =>
        \A k \in 0..(NumStrips - 1) :
           layer.strips[k].mode = "TRACK_SEND_LEVEL" =>
               ~SendIsOff(layer.strips[k].base, layer.selected_channel)

\* C22 amended: a configuration of OUTPUTS with the channel filter on binds no
\* strip to a source whose send level to the configured output is OFF at that
\* moment, and every bound strip sends to that output.
C22_NoSilentSourceWhenConfigured ==
    [][(OutputsConfigured /\ layer'.channel_filter) =>
          \A k \in 0..(NumStrips - 1) :
             layer'.strips[k].mode = "TRACK_SEND_LEVEL" =>
                 /\ layer'.strips[k].to = layer'.reconfigure.channel
                 /\ ~SendIsOff(layer'.strips[k].base, layer'.reconfigure.channel)]_vars

\* The filtered view of an output has just been configured with a strip bound
\* to an input whose send to it is up.
C22_Witness ==
    /\ op.name \in {"toggle_channel_filter", "on_scene_change"}
    /\ layer.mode = "OUTPUTS"
    /\ layer.channel_filter
    /\ layer.reconfigure.what = "outputs"
    /\ layer.strips[0] = VStrip("TRACK_SEND_LEVEL", ApiInput, layer.reconfigure.channel)
    /\ ~SendIsOff(ApiInput, layer.reconfigure.channel)

\* The step has run _configure_sends_on_fader: the handler for the scene of
\* the sends, or the reconfigure callback of toggle_channel_filter.
SendsConfigured ==
    \/ /\ op'.name \in {"on_scene_change", "select_input"}
       /\ op'.handled = scene_config.sends
       /\ op'.handled # layer.virtual_right
    \/ /\ op'.name = "toggle_channel_filter"
       /\ layer.reconfigure.what = "sends"

\* The position of a channel among the aux channels, 0 for any other channel.
AuxIndex(ch) ==
    IF InSeq(ch, send_channels)
    THEN CHOOSE k \in 1..Len(send_channels) : send_channels[k] = ch
    ELSE 0

\* C23: after a configuration of SENDS_ON_FADER for input I, each of the 16
\* strips either tracks the send level of I to an aux channel, the aux
\* channels taken in order, or is tied to zero, and the feedback is cleared.
C23_SendsBindOrTieAllStrips ==
    [][SendsConfigured =>
          LET I == layer'.reconfigure.channel
              st == layer'.strips
          IN /\ \A k \in 0..(NumStrips - 1) :
                   \/ st[k] = VStrip("TIE_TO_ZERO", NoCh, NoCh)
                   \/ /\ st[k].mode = "TRACK_SEND_LEVEL"
                      /\ st[k].base = I
                      /\ AuxIndex(st[k].to) > 0
                      /\ \A j \in 0..(k - 1) :
                            /\ st[j].mode = "TRACK_SEND_LEVEL"
                            /\ AuxIndex(st[j].to) < AuxIndex(st[k].to)
             /\ feedback_source' = NoCh]_vars

\* ------------------------------------------------------ VirtualChannel
\* One virtual channel of the session (an input channel from virtual_start
\* on), the output and the input its bindings refer to.
VirtualCh == Ch("INPUT", 2)
StripOutput == ApiSend
StripInput == ApiInput

\* The state a call of the VirtualChannel starts from: the request queues,
\* the port, what it has written and the change_* calls it has made so far.
StripContext == [requests |-> requests, port |-> port, written |-> <<>>, calls |-> <<>>]

\* A change_* call of DLive on the context: the request of the tracked value
\* and, for a queued request, the encoder call and the port's send_bytes.
ChangeOn(c, name, i, v, cm) ==
    LET rq == RequestResult(value[i], c.requests[i], v, now)
        sends == ShouldSend(rq.queued)
        sb == send_bytes(c.port, now)
    IN [c EXCEPT !.requests = [c.requests EXCEPT ![i] = rq.requests],
                 !.port = IF sends THEN sb.port ELSE c.port,
                 !.written = IF sends /\ sb.sent
                             THEN Append(c.written, Encode(bank_offset, cm))
                             ELSE c.written,
                 !.calls = Append(c.calls, [name |-> name, tv |-> i, v |-> v,
                                            queued |-> rq.queued])]

ChangeLevelOn(c, ch, lv) ==
    ChangeOn(c, "change_level", TV("level", ch, NoCh), lv, Cmd("Level", ch, NoCh, lv, <<>>))

ChangeMuteOn(c, ch, m) ==
    ChangeOn(c, "change_mute", TV("mute", ch, NoCh), m, Cmd("Mute", ch, NoCh, m, <<>>))

ChangeSendLevelOn(c, ch, to, lv) ==
    ChangeOn(c, "change_send_level", TV("send_level", ch, to), lv,
             Cmd("SendLevel", ch, to, lv, <<>>))

\* DLive.get_mute, get_level and get_send_level with their fallbacks
get_mute(ch) ==
    IF value[TV("mute", ch, NoCh)] = NoneVal THEN 0 ELSE value[TV("mute", ch, NoCh)]

get_level(ch) ==
    IF value[TV("level", ch, NoCh)] = NoneVal THEN VALUE_OFF ELSE value[TV("level", ch, NoCh)]

get_send_level(ch, to) ==
    IF value[TV("send_level", ch, to)] = NoneVal THEN VALUE_OFF
    ELSE value[TV("send_level", ch, to)]

\* _on_level_changed in TIE_TO_ZERO with the test `level >= 0`
TieLevelAlways(c, lv) == ChangeLevelOn(c, VirtualCh, VALUE_OFF)

\* _on_level_changed in TIE_TO_ZERO: if level > 0: change_level(self, OFF)
TieLevel(c, lv) == IF lv > 0 THEN ChangeLevelOn(c, VirtualCh, VALUE_OFF) ELSE c

\* _on_level_changed bound to a send that opens the send whatever the level
TrackSendOpen(c, s, lv) == ChangeSendLevelOn(c, s.base, s.to, VALUE_0DB)

\* _on_level_changed in TRACK_SEND_LEVEL
TrackSend(c, s, lv) == ChangeSendLevelOn(c, s.base, s.to, lv)

\* VirtualChannel._on_level_changed with the fields s read under _mode_lock
OnLevelChanged(c, s, channel, lv) ==
    IF channel # VirtualCh \/ s.mode = "NONE" THEN c
    ELSE CASE s.mode = "TIE_TO_ZERO" -> TieLevel(c, lv)
           [] s.mode = "TRACK_SEND_LEVEL" -> TrackSend(c, s, lv)
           [] s.mode = "TRACK_MASTER_LEVEL" -> ChangeLevelOn(c, s.base, lv)
           [] OTHER -> c

\* _on_mute_changed in TRACK_SEND_LEVEL and TIE_TO_ZERO
Unmute(c, m) == IF m = 1 THEN ChangeMuteOn(c, VirtualCh, 0) ELSE c

\* VirtualChannel._on_mute_changed with the fields s read under _mode_lock
OnMuteChanged(c, s, channel, m) ==
    IF channel # VirtualCh \/ s.mode = "NONE" THEN c
    ELSE CASE s.mode \in {"TRACK_SEND_LEVEL", "TIE_TO_ZERO"} -> Unmute(c, m)
           [] s.mode = "TRACK_MASTER_LEVEL" -> ChangeMuteOn(c, s.base, m)
           [] OTHER -> c

\* The state after a call of the VirtualChannel that ended in context c with
\* the fields s; t is what the handler thread has taken.
StripCommit(c, name, i, v, s, t, q) ==
    /\ \A j \in DOMAIN c.requests : Len(c.requests[j]) <= MaxPending
    /\ requests' = c.requests
    /\ port' = c.port
    /\ wire' = c.written
    /\ strip' = s
    /\ turn' = t
    /\ queue' = q
    /\ op' = Call(name, i, v)
    /\ fired' = <<>>
    /\ UNCHANGED <<classOf, value, last_resolve, now, bank_offset, cmd, stage, inbox, messages,
                   decoded, mute_color_quirks_mode, inbound, listener, last_inbound_data,
                   clock, feedback_source, sync, hist, layer, worker, jobs, keys>>

\* A binding call of the controller's thread. The label and the colour of the
\* virtual channel, which the calls write first, have no subscriber and are
\* read by no handler; the runs do not hold their tracked values.
Bind(name, m, lv, s) ==
    \E c \in {ChangeLevelOn(ChangeMuteOn(StripContext, VirtualCh, m), VirtualCh, lv)} :
       StripCommit(c, name, TV("strip", s.base, s.to), lv, s, NoTurn, queue)

\* VirtualChannel.tie_to_zero
tie_to_zero == Bind("tie_to_zero", 0, VALUE_OFF, VStrip("TIE_TO_ZERO", NoCh, NoCh))

\* VirtualChannel.bind_send
bind_send(base_channel, to_channel) ==
    Bind("bind_send", 0, get_send_level(base_channel, to_channel),
         VStrip("TRACK_SEND_LEVEL", base_channel, to_channel))

\* VirtualChannel.bind_master
bind_master(base_channel) ==
    Bind("bind_master", get_mute(base_channel), get_level(base_channel),
         VStrip("TRACK_MASTER_LEVEL", base_channel, NoCh))

\* The listener's turn for a decoded LevelMessage or MuteMessage: the resolve
\* of the tracked value, whose on_update_idle calls the AsyncEvent
\* api.on_update_level or api.on_update_mute; the call goes to its queue.
StripArrives(kind, ch, v) ==
    LET i == TV(kind, ch, NoCh)
        rs == ResolveOn(i, v)
        idle == \E k \in 1..Len(rs.fired) : rs.fired[k].ev = "on_update_idle"
    IN /\ queue[kind] = <<>>
       /\ value' = [value EXCEPT ![i] = rs.value]
       /\ last_resolve' = [last_resolve EXCEPT ![i] = rs.last_resolve]
       /\ requests' = [requests EXCEPT ![i] = rs.requests]
       /\ fired' = rs.fired
       /\ queue' = IF idle
                   THEN [queue EXCEPT ![kind] = Append(queue[kind], [channel |-> ch, v |-> v])]
                   ELSE queue
       /\ op' = [Call("listen", i, v) EXCEPT !.pending = rs.remaining, !.index = rs.index,
                     !.mtime = rs.mtime, !.update = rs.update]
       /\ wire' = <<>>
       /\ turn' = NoTurn
       /\ UNCHANGED <<classOf, now, port, bank_offset, cmd, stage, inbox, messages, decoded,
                      mute_color_quirks_mode, inbound, listener, last_inbound_data,
                      clock, feedback_source, sync, hist, layer, strip, worker, jobs, keys>>

LevelArrives(ch, lv) == StripArrives("level", ch, lv)

MuteArrives(ch, m) == StripArrives("mute", ch, m)

\* What the handler thread has taken: the event, the fields read, the calls made.
Taken(kind, e, s, c) ==
    [pc |-> "idle", event |-> kind, channel |-> e.channel, v |-> e.v, strip |-> s,
     calls |-> c.calls]

\* AsyncEvent._worker of api.on_update_level: the next call goes to
\* VirtualChannel._on_level_changed.
LevelWorker ==
    /\ queue.level # <<>>
    /\ LET e == Head(queue.level)
       IN \E c \in {OnLevelChanged(StripContext, strip, e.channel, e.v)} :
             StripCommit(c, "on_level_changed", TV("level", e.channel, NoCh), e.v, strip,
                         Taken("level", e, strip, c), [queue EXCEPT !.level = Tail(queue.level)])

\* AsyncEvent._worker of api.on_update_mute: the next call goes to
\* VirtualChannel._on_mute_changed.
MuteWorker ==
    /\ queue.mute # <<>>
    /\ LET e == Head(queue.mute)
       IN \E c \in {OnMuteChanged(StripContext, strip, e.channel, e.v)} :
             StripCommit(c, "on_mute_changed", TV("mute", e.channel, NoCh), e.v, strip,
                         Taken("mute", e, strip, c), [queue EXCEPT !.mute = Tail(queue.mute)])

\* ------------------------------------- specification of a virtual channel
\* The session after a sync: the levels and mutes of the virtual channel and
\* of the output are known, the strip is as constructed.
StripInstances ==
    [i \in {TV("level", VirtualCh, NoCh), TV("mute", VirtualCh, NoCh),
            TV("level", StripOutput, NoCh), TV("mute", StripOutput, NoCh),
            TV("send_level", StripInput, StripOutput)} |-> "Tracked"]

StripLevels == {VALUE_OFF, VALUE_0DB}

StripConstructed ==
    /\ classOf = StripInstances
    /\ value = [i \in DOMAIN classOf |-> 0]
    /\ last_resolve = [i \in DOMAIN classOf |-> NoneVal]
    /\ requests = [i \in DOMAIN classOf |-> <<>>]
    /\ now = 0
    /\ op = NoOp
    /\ fired = <<>>
    /\ wire = <<>>
    /\ port = NewPort(0)
    /\ bank_offset = 0
    /\ cmd = NoCmd
    /\ stage = "idle"
    /\ inbox = <<>>
    /\ messages = <<>>
    /\ decoded = <<>>
    /\ mute_color_quirks_mode = FALSE
    /\ inbound = <<>>
    /\ listener = "running"
    /\ last_inbound_data = 0
    /\ clock = 0
    /\ feedback_source = NoCh
    /\ sync = NoSync
    /\ hist = NoHist
    /\ layer = NoLayer
    /\ strip = VStrip("NONE", NoCh, NoCh)
    /\ turn = NoTurn
    /\ queue = [level |-> <<>>, mute |-> <<>>]
    /\ jobs = <<>>
    /\ keys = <<>>

InitStrip == StripConstructed /\ worker = NoWorker

NextStrip ==
    \/ tie_to_zero
    \/ bind_send(StripInput, StripOutput)
    \/ bind_master(StripOutput)
    \/ \E ch \in {VirtualCh, StripOutput}, lv \in StripLevels : LevelArrives(ch, lv)
    \/ \E m \in {0, 1} : MuteArrives(VirtualCh, m)
    \/ LevelWorker
    \/ MuteWorker

SpecStrip == InitStrip /\ [][NextStrip]_vars

\* ------------------------------------------------------- claims C24 .. C26
\* The step is the listener's resolve of a Level or Mute of the virtual channel.
SelfArrived(kind) == op'.name = "listen" /\ op'.tv = TV(kind, VirtualCh, NoCh)

\* The resolve of the step has put its call on the event's queue.
Enqueued(kind) == queue'[kind] = Append(queue[kind], [channel |-> VirtualCh, v |-> op'.arg])

\* The step is the strip's handler taking an event of the virtual channel.
SelfHandled(kind) ==
    /\ op'.name = (IF kind = "level" THEN "on_level_changed" ELSE "on_mute_changed")
    /\ turn'.channel = VirtualCh

\* The one change_* call the handler of the step has made.
Issued(name, i, v) ==
    /\ Len(turn'.calls) = 1
    /\ turn'.calls[1].name = name
    /\ turn'.calls[1].tv = i
    /\ turn'.calls[1].v = v

\* The tracked value holds v with nothing unanswered, or its last unanswered
\* request asks for v: a request of v is not queued.
NotQueueable(i, v) ==
    \/ requests[i] = <<>> /\ value[i] = v
    \/ requests[i] # <<>> /\ requests[i][Len(requests[i])].v = v

LevelZero == level(bank_offset, VirtualCh, VALUE_OFF)

NothingIssued == turn'.calls = <<>> /\ wire' = <<>> /\ requests' = requests

\* What the level handler does with an event it has taken, by the strip's mode.
LevelDispatch ==
    /\ (SelfHandled("level") /\ strip.mode = "TRACK_SEND_LEVEL") =>
          Issued("change_send_level", TV("send_level", strip.base, strip.to), turn'.v)
    /\ (SelfHandled("level") /\ strip.mode = "TRACK_MASTER_LEVEL") =>
          Issued("change_level", TV("level", strip.base, NoCh), turn'.v)
    /\ (SelfHandled("level") /\ strip.mode = "NONE") => NothingIssued
    /\ (op'.name = "on_level_changed" /\ turn'.channel # VirtualCh) => NothingIssued

\* C25 as stated: every inbound Level(self, v) reaches the handler of a bound
\* strip, which calls change_send_level(base, dest, v) when it tracks a send
\* and change_level(base, v) when it tracks a master; an unbound strip calls
\* nothing, and a Level of another channel is ignored.
C25_EveryLevelDispatched ==
    [][/\ (SelfArrived("level") /\ strip.mode \in {"TRACK_SEND_LEVEL", "TRACK_MASTER_LEVEL"}) =>
              Enqueued("level")
       /\ LevelDispatch]_vars

\* C25 amended: the same for the Levels that reach the handler, which are
\* those that changed the tracked level and left no request unanswered.
C25_DeliveredLevelDispatched ==
    [][/\ (SelfArrived("level") /\ strip.mode \in {"TRACK_SEND_LEVEL", "TRACK_MASTER_LEVEL"}) =>
              (Enqueued("level") <=> (op'.update /\ op'.pending = 0))
       /\ (SelfArrived("level") /\ ~(op'.update /\ op'.pending = 0)) => queue' = queue
       /\ LevelDispatch]_vars

\* The handler of a strip bound to a send has taken Level(self, v) and has
\* written the send level v of its base to its destination.
C25_Witness ==
    /\ op.name = "on_level_changed"
    /\ turn.channel = VirtualCh
    /\ turn.strip = VStrip("TRACK_SEND_LEVEL", StripInput, StripOutput)
    /\ turn.v = VALUE_0DB
    /\ wire = <<send_level(bank_offset, StripInput, StripOutput, VALUE_0DB)>>

\* What the mute handler does with a Mute(self, m) it has taken, for the modes
\* in which the strip is bound or tied.
BoundMuteDispatch ==
    /\ (SelfHandled("mute") /\ strip.mode \in {"TRACK_SEND_LEVEL", "TIE_TO_ZERO"}) =>
          IF turn'.v = 1
          THEN Issued("change_mute", TV("mute", VirtualCh, NoCh), 0)
          ELSE NothingIssued
    /\ (SelfHandled("mute") /\ strip.mode = "TRACK_MASTER_LEVEL") =>
          Issued("change_mute", TV("mute", strip.base, NoCh), turn'.v)

\* C26: on a Mute(self, m) taken by the handler, a strip that tracks a send or
\* is tied to zero calls change_mute(self, false) when m is true, a strip that
\* tracks a master calls change_mute(base, m), and an unbound strip calls
\* change_mute(self, true) when m is false.
C26_MuteDispatched ==
    [][/\ BoundMuteDispatch
       /\ (SelfHandled("mute") /\ strip.mode = "NONE" /\ turn'.v = 0) =>
              Issued("change_mute", TV("mute", VirtualCh, NoCh), 1)]_vars

\* ------------------------------------ VirtualChannel, statement by statement
\* The threads that touch the fields of one VirtualChannel: the scene
\* worker, which makes the binding calls one after the other, and the workers
\* of api.on_update_level and api.on_update_mute, which run the handlers.
\* `worker` holds _mode_lock's owner and each thread's position and locals.
\* The handlers write none of the fields and meet only at the lock, which
\* each holds for one step: a run follows the turns of one of the two
\* handler threads (worker.follows) and the console's reports of its
\* attribute against the binding calls, and the runs cover both.
Unread == VStrip("UNREAD", NoCh, NoCh)

IdleThread == [pc |-> "idle", step |-> 0, target |-> Unread, v |-> 0]

InitialStrip == VStrip("NONE", NoCh, NoCh)

\* `with self._mode_lock` is entered by one thread at a time.
LockFreeAlways(w) == TRUE

LockFree(w) == w.lock = "free"

\* The order in which a binding call assigns the fields under the lock.
AssignOrder(mode) ==
    IF mode = "TIE_TO_ZERO" THEN <<"mode", "base", "to">> ELSE <<"base", "to", "mode">>

\* The fields a handler reads under the lock, in order.
ReadOrder(kind) == IF kind = "level" THEN <<"mode", "base", "to">> ELSE <<"mode", "base">>

\* The state after a statement of one of the threads.
BindCommit(c, s, w, q) ==
    /\ \A j \in DOMAIN c.requests : Len(c.requests[j]) <= MaxPending
    /\ requests' = c.requests
    /\ port' = c.port
    /\ wire' = c.written
    /\ strip' = s
    /\ worker' = w
    /\ queue' = q
    /\ op' = Call("statement", TV("strip", NoCh, NoCh), 0)
    /\ fired' = <<>>
    /\ UNCHANGED <<classOf, value, last_resolve, now, bank_offset, cmd, stage, inbox, messages,
                   decoded, mute_color_quirks_mode, inbound, listener, last_inbound_data,
                   clock, feedback_source, sync, hist, layer, turn, jobs, keys>>

\* A binding call up to its `with self._mode_lock`: the change_mute and the
\* change_level of the virtual channel.
BindStart(m, lv, s) ==
    /\ worker.binder.pc = "idle"
    /\ \E c \in {ChangeLevelOn(ChangeMuteOn(StripContext, VirtualCh, m), VirtualCh, lv)} :
          BindCommit(c, strip,
                     [worker EXCEPT !.binder = [pc |-> "acquire", step |-> 1, target |-> s,
                                                v |-> 0]],
                     queue)

\* VirtualChannel.unbind
unbind == BindStart(1, VALUE_OFF, InitialStrip)

\* The binding call enters `with self._mode_lock`.
BindAcquire ==
    /\ worker.binder.pc = "acquire"
    /\ LockFree(worker)
    /\ BindCommit(StripContext, strip,
                  [worker EXCEPT !.lock = "binder", !.binder.pc = "assign"], queue)

\* One assignment of the binding call under the lock.
BindAssign ==
    /\ worker.binder.pc = "assign"
    /\ LET b == worker.binder
           order == AssignOrder(b.target.mode)
           f == order[b.step]
           s == [strip EXCEPT ![f] = b.target[f]]
       IN BindCommit(StripContext, s,
                     [worker EXCEPT !.binder.step = b.step + 1,
                                    !.binder.pc = IF b.step = Len(order) THEN "release"
                                                  ELSE "assign"],
                     queue)

\* The binding call leaves the `with` block and returns.
BindRelease ==
    /\ worker.binder.pc = "release"
    /\ BindCommit(StripContext, strip,
                  [worker EXCEPT !.lock = "free", !.binder = IdleThread], queue)

\* AsyncEvent._worker takes the next call and the handler makes its first
\* test, which reads _mode without the lock.
HandlerTake(kind) ==
    /\ worker.follows = kind
    /\ worker[kind].pc = "idle"
    /\ queue[kind] # <<>>
    /\ LET e == Head(queue[kind])
           goes == e.channel = VirtualCh /\ strip.mode # "NONE"
       IN BindCommit(StripContext, strip,
                     [worker EXCEPT ![kind] = [pc |-> IF goes THEN "acquire" ELSE "idle",
                                               step |-> 1, target |-> Unread, v |-> e.v]],
                     [queue EXCEPT ![kind] = Tail(queue[kind])])

\* The handler's `with self._mode_lock` block: it enters when the lock is
\* free, reads the fields into its locals and leaves. No other thread runs
\* its own block meanwhile, so the block is one step.
HandlerRead(kind) ==
    /\ worker[kind].pc = "acquire"
    /\ LockFree(worker)
    /\ LET order == ReadOrder(kind)
           got == [f \in DOMAIN Unread |->
                      IF \E k \in 1..Len(order) : order[k] = f THEN strip[f] ELSE Unread[f]]
       IN BindCommit(StripContext, strip,
                     [worker EXCEPT ![kind].target = got, ![kind].pc = "act"], queue)

\* The tracked values the handler's locals name exist.
Actable(kind, t) ==
    CASE t.mode = "TRACK_SEND_LEVEL" /\ kind = "level" ->
             TV("send_level", t.base, t.to) \in DOMAIN classOf
      [] t.mode = "TRACK_MASTER_LEVEL" -> TV(kind, t.base, NoCh) \in DOMAIN classOf
      [] OTHER -> TRUE

\* The rest of the handler: the dispatch on the mode read.
HandlerAct(kind) ==
    /\ worker[kind].pc = "act"
    /\ Actable(kind, worker[kind].target)
    /\ LET h == worker[kind]
       IN \E c \in {IF kind = "level" THEN OnLevelChanged(StripContext, h.target, VirtualCh, h.v)
                    ELSE OnMuteChanged(StripContext, h.target, VirtualCh, h.v)} :
             BindCommit(c, strip, [worker EXCEPT ![kind].pc = "idle"], queue)

InitBind ==
    /\ StripConstructed
    /\ \E kind \in {"level", "mute"} :
          worker = [lock |-> "free", binder |-> IdleThread, level |-> IdleThread,
                    mute |-> IdleThread, follows |-> kind]

NextBind ==
    \/ BindStart(0, VALUE_OFF, VStrip("TIE_TO_ZERO", NoCh, NoCh))
    \/ BindStart(0, get_send_level(StripInput, StripOutput),
                 VStrip("TRACK_SEND_LEVEL", StripInput, StripOutput))
    \/ BindStart(get_mute(StripOutput), get_level(StripOutput),
                 VStrip("TRACK_MASTER_LEVEL", StripOutput, NoCh))
    \/ unbind
    \/ BindAcquire
    \/ BindAssign
    \/ BindRelease
    \/ \E lv \in StripLevels : worker.follows = "level" /\ LevelArrives(VirtualCh, lv)
    \/ \E m \in {0, 1} : worker.follows = "mute" /\ MuteArrives(VirtualCh, m)
    \/ \E kind \in {"level", "mute"} :
          \/ HandlerTake(kind)
          \/ HandlerRead(kind)
          \/ HandlerAct(kind)

SpecBind == InitBind /\ [][NextBind]_vars

\* ------------------------------------------------------------- claim C27
\* The triples that one binding call, or the constructor, writes.
BindingTriples ==
    {InitialStrip, VStrip("TIE_TO_ZERO", NoCh, NoCh),
     VStrip("TRACK_SEND_LEVEL", StripInput, StripOutput),
     VStrip("TRACK_MASTER_LEVEL", StripOutput, NoCh)}

\* The fields the handler of the kind has read agree with the triple s.
ReadFrom(kind, s) ==
    \A k \in 1..Len(ReadOrder(kind)) :
       worker[kind].target[ReadOrder(kind)[k]] = s[ReadOrder(kind)[k]]

\* C27: whatever the interleaving of the handlers with tie_to_zero, bind_send,
\* bind_master and unbind, the mode, base and destination a handler acts on
\* are those written by one single binding call (or by the constructor).
C27_HandlerActsOnOneBinding ==
    \A kind \in {"level", "mute"} :
       worker[kind].pc = "act" =>
          \E s \in BindingTriples : ReadFrom(kind, s)

\* The level handler is about to act on the triple of bind_send while a later
\* binding call is in the middle of its assignments.
C27_Witness ==
    /\ worker.level.pc = "act"
    /\ worker.level.target = VStrip("TRACK_SEND_LEVEL", StripInput, StripOutput)
    /\ worker.binder.pc = "assign"
    /\ worker.binder.step = 2
    /\ strip # worker.level.target

\* ------------------------------------------------------------- Scheduler
\* The BackgroundScheduler behind common.scheduler.Scheduler. `jobs` holds its
\* job store (name -> job), the runs handed to its executor and not yet
\* started, and what became of every job (run, missed, cancelled): each
\* add_job gets a serial number.
MaxJobs == 2

JobNames == {"key_1", "key_2"}

NoJob == [name |-> "", kind |-> "none", serial |-> 0]

\* How the host's local time reads as a time of _TIMEZONE: execute_delayed
\* takes datetime.now(), which carries no zone, and hands it to a DateTrigger
\* of "Europe/Berlin". On a host of that zone the run date is one delay ahead
\* (0); on a host west of it the run date lies hours in the past (-1), east
\* of it hours in the future (1).
Skews == {-1, 0, 1}

NoJobs == [store |-> [n \in JobNames |-> NoJob], pool |-> {}, ran |-> {}, missed |-> {},
           cancelled |-> {}, next |-> 1, skew |-> 0]

\* BackgroundScheduler.add_job(..., id=name, replace_existing=True)
add_job(j, name, kind) ==
    [j EXCEPT !.store[name] = [name |-> name, kind |-> kind, serial |-> j.next],
              !.next = j.next + 1]

\* BackgroundScheduler.remove_job(name): JobLookupError when the store has no
\* job of the name.
remove_job(j, name) ==
    IF j.store[name] = NoJob
    THEN [jobs |-> j, raised |-> "JobLookupError"]
    ELSE [jobs |-> [j EXCEPT !.store[name] = NoJob,
                             !.cancelled = @ \cup {j.store[name]}],
          raised |-> "none"]

\* Scheduler.cancel as a function of the store: the store after it and the
\* value returned.
CancelResult(j, name) ==
    LET r == remove_job(j, name)
    IN [jobs |-> r.jobs, returned |-> r.raised # "JobLookupError"]

\* The record of a call of the Scheduler.
JobCall(name, job, serial, returned) ==
    [name |-> name, job |-> job, serial |-> serial, returned |-> returned]

\* The state after a step that touches the scheduler and the keys only.
JobCommit(j, k, o) ==
    /\ jobs' = j
    /\ keys' = k
    /\ op' = o
    /\ UNCHANGED <<classOf, value, last_resolve, requests, now, fired, bank_offset, cmd, stage,
                   wire, port, inbox, messages, decoded, mute_color_quirks_mode, inbound,
                   listener, last_inbound_data, clock, feedback_source, sync, hist, layer,
                   strip, turn, queue, worker>>

\* Scheduler.execute_delayed(name, seconds_delay, handler)
execute_delayed(name) ==
    /\ jobs.next <= MaxJobs
    /\ JobCommit(add_job(jobs, name, "date"), keys,
                 JobCall("execute_delayed", name, jobs.next, TRUE))

\* Scheduler.execute_interval(name, seconds_delay, handler)
execute_interval(name) ==
    /\ jobs.next <= MaxJobs
    /\ JobCommit(add_job(jobs, name, "interval"), keys,
                 JobCall("execute_interval", name, jobs.next, TRUE))

\* Scheduler.cancel(name)
cancel(name) ==
    LET r == CancelResult(jobs, name)
    IN JobCommit(r.jobs, keys, JobCall("cancel", name, jobs.store[name].serial, r.returned))

\* The run date of a one-shot job can be reached: it is never reached in a
\* session when it lies hours ahead.
CanBeDue(j, job) == job.kind = "interval" \/ j.skew <= 0

\* A due one-shot job leaves the store in the same locked block that hands
\* its run to the executor.
AfterSubmitKept(j, name) == j.store

AfterSubmit(j, name) ==
    IF j.store[name].kind = "date" THEN [j.store EXCEPT ![name] = NoJob] ELSE j.store

\* The scheduler thread's _process_jobs for a due job: the run goes to the
\* executor (not while an earlier run of an interval job waits there:
\* max_instances is 1); an interval job stays in the store for its next run.
ProcessDue(name) ==
    /\ jobs.store[name] # NoJob
    /\ CanBeDue(jobs, jobs.store[name])
    /\ LET job == jobs.store[name]
       IN /\ job \notin jobs.pool
          /\ JobCommit([jobs EXCEPT !.pool = @ \cup {job}, !.store = AfterSubmit(jobs, name)],
                       keys, JobCall("process_due", name, job.serial, TRUE))

\* The executor's run_job: the body runs, unless the run date of a one-shot
\* job was missed by more than misfire_grace_time (one second), which is so
\* when the run date lay hours in the past.
RunJob ==
    \E job \in jobs.pool :
       LET late == job.kind = "date" /\ jobs.skew < 0
       IN JobCommit([jobs EXCEPT !.pool = @ \ {job},
                                 !.ran = IF late THEN @ ELSE @ \cup {job},
                                 !.missed = IF late THEN @ \cup {job} ELSE @],
                    keys, JobCall(IF late THEN "missed" ELSE "run_job", "", job.serial, TRUE))

\* ------------------------------------------------------- key handling
\* The keys of a deck. `keys` holds App.settings.direct_action, the keys held
\* down and, for every press, what key_change did with it.
MaxPresses == 2

Keys == {1, 2}

\* "key_" + repr(key)
KeyJob(key) == IF key = 1 THEN "key_1" ELSE "key_2"

NoKeys == [direct_action |-> FALSE, down |-> {}, presses |-> <<>>]

\* key_change(_, key, True): with direct action the long-press handler runs
\* at once; otherwise the long press is scheduled one second ahead and the
\* key-down handler runs.
KeyDown(key) ==
    /\ key \notin keys.down
    /\ Len(keys.presses) < MaxPresses
    /\ jobs.next <= MaxJobs
    /\ LET direct == keys.direct_action
           press == [key |-> key, serial |-> IF direct THEN 0 ELSE jobs.next,
                     off_down |-> ~direct, released |-> FALSE, cancelled |-> FALSE,
                     off_up |-> FALSE, ran |-> IF direct THEN {"long"} ELSE {"down"}]
       IN JobCommit(IF direct THEN jobs ELSE add_job(jobs, KeyJob(key), "date"),
                    [keys EXCEPT !.down = @ \cup {key}, !.presses = Append(@, press)],
                    JobCall("key_down", KeyJob(key), press.serial, TRUE))

\* The press of the key that is not yet released.
Held(key) == CHOOSE p \in 1..Len(keys.presses) :
                keys.presses[p].key = key /\ ~keys.presses[p].released

\* key_change(_, key, False): the key-up handler runs when the cancel of the
\* long press succeeded and direct action is off.
KeyUp(key) ==
    /\ key \in keys.down
    /\ LET r == CancelResult(jobs, KeyJob(key))
           direct == keys.direct_action
           p == Held(key)
       IN JobCommit(r.jobs,
                    [keys EXCEPT !.down = @ \ {key},
                                 !.presses[p].released = TRUE,
                                 !.presses[p].cancelled = r.returned,
                                 !.presses[p].off_up = ~direct,
                                 !.presses[p].ran = IF r.returned /\ ~direct
                                                    THEN @ \cup {"up"} ELSE @],
                    JobCall("key_up", KeyJob(key), keys.presses[p].serial, r.returned))

\* GlobalSettings.toggle_direct_action
toggle_direct_action ==
    JobCommit(jobs, [keys EXCEPT !.direct_action = ~@], JobCall("toggle_direct_action", "", 0, TRUE))

\* ------------------------- specifications of the scheduler and of the keys
\* Everything of the session but the strips, the events, the scheduler and
\* the keys, not constructed.
SessionBare ==
    /\ classOf = << >>
    /\ value = << >>
    /\ last_resolve = << >>
    /\ requests = << >>
    /\ now = 0
    /\ op = NoOp
    /\ fired = <<>>
    /\ wire = <<>>
    /\ port = NewPort(0)
    /\ bank_offset = 0
    /\ cmd = NoCmd
    /\ stage = "idle"
    /\ inbox = <<>>
    /\ messages = <<>>
    /\ decoded = <<>>
    /\ mute_color_quirks_mode = FALSE
    /\ inbound = <<>>
    /\ listener = "idle"
    /\ last_inbound_data = 0
    /\ clock = 0
    /\ feedback_source = NoCh
    /\ sync = NoSync
    /\ hist = NoHist
    /\ layer = NoLayer

SessionApart == SessionBare /\ strip = NoStrip /\ turn = NoTurn

InitJobs ==
    /\ SessionApart
    /\ queue = <<>>
    /\ worker = NoWorker
    /\ \E skew \in Skews : jobs = [NoJobs EXCEPT !.skew = skew]
    /\ keys = NoKeys

NextScheduler ==
    \/ \E name \in JobNames : execute_delayed(name)
    \/ \E name \in JobNames : execute_interval(name)
    \/ \E name \in JobNames : cancel(name)
    \/ \E name \in JobNames : ProcessDue(name)
    \/ RunJob

SpecScheduler == InitJobs /\ [][NextScheduler]_vars

NextKeys ==
    \/ \E key \in Keys : KeyDown(key)
    \/ \E key \in Keys : KeyUp(key)
    \/ toggle_direct_action
    \/ \E name \in JobNames : ProcessDue(name)
    \/ RunJob

SpecKeys == InitJobs /\ [][NextKeys]_vars

\* ------------------------------------------------------- claims C28, C29
\* Every job there is a trace of.
KnownJobs(j) ==
    {j.store[n] : n \in JobNames} \cup j.pool \cup j.ran \cup j.missed \cup j.cancelled

\* The job added last under the name has run and was a one-shot job.
AlreadyRun(j, name) ==
    \E job \in j.ran :
       /\ job.name = name
       /\ job.kind = "date"
       /\ \A other \in KnownJobs(j) : other.name = name => other.serial <= job.serial

\* C28: cancel(name) returns true exactly when a job of the name is pending;
\* a one-shot job cancelled before it was due never runs; cancel of a one-shot
\* job that has already run returns false.
C28_CancelTellsPending ==
    [][/\ op'.name = "cancel" => (op'.returned <=> jobs.store[op'.job] # NoJob)
       /\ \A job \in jobs'.cancelled :
             job.kind = "date" => job \notin (jobs'.ran \cup jobs'.pool)
       /\ (op'.name = "cancel" /\ AlreadyRun(jobs, op'.job)) => ~op'.returned]_vars

\* cancel has returned false for a one-shot job that has run, after an
\* earlier one-shot job was cancelled in time.
C28_Witness ==
    /\ op.name = "cancel"
    /\ ~op.returned
    /\ AlreadyRun(jobs, op.job)
    /\ \E job \in jobs.cancelled : job.kind = "date"

\* The long press scheduled by the press p has run, or waits at the executor.
LongPress(p) == \E job \in jobs.ran \cup jobs.pool : job.serial = keys.presses[p].serial

\* The press p is over and direct action was off at its key-down and key-up.
Pressed(p) ==
    /\ keys.presses[p].released
    /\ keys.presses[p].off_down
    /\ keys.presses[p].off_up

\* C29: for every key-down followed by the key-up of the same key with direct
\* action off, exactly one of the long-press handler and the key-up handler
\* runs, the key-up handler exactly when the cancel succeeded: never both,
\* never neither.
C29_LongPressOrKeyUp ==
    \A p \in 1..Len(keys.presses) :
       Pressed(p) =>
          /\ ("up" \in keys.presses[p].ran) <=> keys.presses[p].cancelled
          /\ ~("up" \in keys.presses[p].ran /\ LongPress(p))
          /\ "up" \in keys.presses[p].ran \/ LongPress(p)

\* ------------------------------------------------------------- AsyncEvent
\* One AsyncEvent with its subscribers. `queue` is its Queue of calls (the
\* calls are numbered in the order of their put), `worker` the thread started
\* by __init__: its position, the call it has taken, the subscriber it is at,
\* and the invocations made so far, in order.
MaxCalls == 5

Subscribers == 2

EventWorker == [pc |-> "get", call |-> 0, k |-> 0, next |-> 1, invoked |-> <<>>]

\* The state after a step of the event or of its thread.
EventCommit(q, w, name, arg) ==
    /\ queue' = q
    /\ worker' = w
    /\ op' = Call(name, TV("event", NoCh, NoCh), arg)
    /\ UNCHANGED <<classOf, value, last_resolve, requests, now, fired, bank_offset, cmd, stage,
                   wire, port, inbox, messages, decoded, mute_color_quirks_mode, inbound,
                   listener, last_inbound_data, clock, feedback_source, sync, hist, layer,
                   strip, turn, jobs, keys>>

\* AsyncEvent.__call__: self._queue.put((args, kwargs))
EventCall ==
    /\ worker.next <= MaxCalls
    /\ EventCommit(Append(queue, worker.next), [worker EXCEPT !.next = @ + 1],
                   "__call__", worker.next)

\* _worker: args, kwargs = self._queue.get()
WorkerGet ==
    /\ worker.pc = "get"
    /\ queue # <<>>
    /\ EventCommit(Tail(queue), [worker EXCEPT !.pc = "call", !.call = Head(queue), !.k = 1],
                   "get", Head(queue))

\* Where the thread is after an invocation that raised: the loop has no
\* handler for the exception, the thread ends.
AfterRaise(w) == [w EXCEPT !.pc = "dead"]

\* _worker: f(*args, **kwargs) for the next subscriber f; after the last one
\* task_done and the next get. The subscriber returns or raises.
WorkerInvoke(raises) ==
    /\ worker.pc = "call"
    /\ LET w == [worker EXCEPT !.invoked = Append(@, <<worker.call, worker.k>>)]
       IN EventCommit(queue,
                      IF raises THEN AfterRaise(w)
                      ELSE [w EXCEPT !.pc = IF w.k = Subscribers THEN "get" ELSE "call",
                                     !.k = IF w.k = Subscribers THEN 0 ELSE w.k + 1],
                      IF raises THEN "raise" ELSE "invoke", worker.call)

InitEvent ==
    /\ SessionApart
    /\ queue = <<>>
    /\ worker = EventWorker
    /\ jobs = <<>>
    /\ keys = <<>>

NextEvent ==
    \/ EventCall
    \/ WorkerGet
    \/ \E raises \in BOOLEAN : WorkerInvoke(raises)

SpecEvent == InitEvent /\ [][NextEvent]_vars

\* ------------------------------------------------------------- claim C30
\* The invocations of the calls 1..n, each to every subscriber, in order.
RECURSIVE InOrder(_)
InOrder(n) ==
    IF n = 0 THEN <<>>
    ELSE InOrder(n - 1) \o [k \in 1..Subscribers |-> <<n, k>>]

\* The thread has nothing at hand and nothing it will take.
AtRest == worker.pc # "call" /\ (queue = <<>> \/ worker.pc = "dead")

\* C30: every call of an AsyncEvent is delivered to every subscriber exactly
\* once, one after the other on the one thread, in the order of the calls,
\* and no call is dropped, whether or not an earlier invocation raised.
C30_EveryCallDelivered ==
    /\ \E n \in 0..Len(InOrder(worker.next - 1)) :
          worker.invoked = SubSeq(InOrder(worker.next - 1), 1, n)
    /\ AtRest => worker.invoked = InOrder(worker.next - 1)

\* ------------------------------------------------------------------ Event
\* One synchronous Event: a list of subscribers, called in a loop by
\* __call__ on the caller's thread. `queue` is the list itself; `worker` holds
\* what the subscribers have been called with so far (as the test's
\* `executed`) and the number of calls of the event. The subscribers return.
MaxHandlers == 3

MaxFires == 2

Handlers == {"on_execute", "on_update"}

EventArgs == {"foo", "bar"}

NoFires == [executed |-> <<>>, fires |-> 0, last |-> ""]

\* The state after a call on the Event.
ListCommit(q, w, name) ==
    /\ queue' = q
    /\ worker' = w
    /\ op' = Call(name, TV("event", NoCh, NoCh), 0)
    /\ UNCHANGED <<classOf, value, last_resolve, requests, now, fired, bank_offset, cmd, stage,
                   wire, port, inbox, messages, decoded, mute_color_quirks_mode, inbound,
                   listener, last_inbound_data, clock, feedback_source, sync, hist, layer,
                   strip, turn, jobs, keys>>

\* list.append(f)
append(f) ==
    /\ Len(queue) < MaxHandlers
    /\ ListCommit(Append(queue, f), worker, "append")

\* The loop of __call__ visits one subscriber per distinct handler.
InvocationsOfDistinct(list, arg) ==
    [k \in 1..Cardinality({list[j] : j \in DOMAIN list}) |->
        <<list[CHOOSE j \in DOMAIN list :
                 Cardinality({list[i] : i \in 1..j}) = k
                 /\ \A i \in 1..(j - 1) : list[i] # list[j]], arg>>]

\* `for f in self: f(*args, **kwargs)`: the invocations of one call, in order.
Invocations(list, arg) == [k \in 1..Len(list) |-> <<list[k], arg>>]

\* Event.__call__(arg)
Fire(arg) ==
    /\ worker.fires < MaxFires
    /\ ListCommit(queue,
                  [worker EXCEPT !.executed = @ \o Invocations(queue, arg), !.fires = @ + 1,
                                 !.last = arg],
                  "__call__")

InitList ==
    /\ SessionApart
    /\ queue = <<>>
    /\ worker = NoFires
    /\ jobs = <<>>
    /\ keys = <<>>

NextList ==
    \/ \E f \in Handlers : append(f)
    \/ \E arg \in EventArgs : Fire(arg)

SpecList == InitList /\ [][NextList]_vars

\* ------------------------------------------------------------- claim C31
\* C31: a call of a synchronous Event invokes every registered subscriber
\* once per registration (a handler appended twice runs twice), in the order
\* of registration, with the arguments of the call, before the call returns;
\* no subscriber runs before the event is called.
C31_CallRunsEveryRegistration ==
    [][/\ op'.name = "__call__" =>
             /\ Len(worker'.executed) = Len(worker.executed) + Len(queue)
             /\ SubSeq(worker'.executed, 1, Len(worker.executed)) = worker.executed
             /\ \A k \in 1..Len(queue) :
                   worker'.executed[Len(worker.executed) + k] = <<queue[k], worker'.last>>
       /\ op'.name # "__call__" => worker'.executed = worker.executed
       /\ worker.fires = 0 => worker.executed = <<>>]_vars

\* As in the test: the same handler appended twice, then one call with "foo"
\* has run it twice.
C31_Witness ==
    /\ queue = <<"on_execute", "on_execute">>
    /\ op.name = "__call__"
    /\ worker.executed = <<<<"on_execute", "foo">>, <<"on_execute", "foo">>>>

\* ------------------------------------------------------------- claim C32
\* C32: change_scene(s) with s outside [0, 499] raises to the caller, writes
\* nothing to the outbound port and leaves the tracked scene, its value and
\* its queue of requests, as it was.
C32_BadSceneLeavesNoTrace ==
    [][(op'.name = "change_scene" /\ ~SceneInRange(op'.arg)) =>
          /\ op'.raised = "IndexError"
          /\ wire' = <<>>
          /\ value' = value
          /\ requests' = requests]_vars

\* ------------------------------------------------ S-DCA of entity.py
\* The send-DCA of the VirtualChannel of dlive/entity.py: one fader position
\* applied to the send levels of several channels. `worker` holds the call:
\* the fader position, the (channel, base_level) pairs by their base levels,
\* and the send levels the call has set, in the order of the pairs.
MaxAffected == 2

FaderPositions == {VALUE_OFF, 44, VALUE_FADER_MIDPOINT - 1, VALUE_FADER_MIDPOINT,
                   VALUE_FADER_MIDPOINT + 1, 100, VALUE_FULL}

BaseLevels == {VALUE_OFF, 50, VALUE_0DB, VALUE_FULL}

Abs(x) == IF x < 0 THEN 0 - x ELSE x

\* int(num / den): the quotient cut towards zero.
TruncDiv(num, den) ==
    IF (num < 0) = (den < 0) THEN Abs(num) \div Abs(den) ELSE 0 - (Abs(num) \div Abs(den))

\* round(num / den): the nearest integer, a half going to the even one.
RoundDiv(num, den) ==
    LET n == IF den < 0 THEN 0 - num ELSE num
        d == Abs(den)
        q == n \div d
        r == n - q * d
    IN IF 2 * r < d THEN q
       ELSE IF 2 * r > d THEN q + 1
       ELSE IF q % 2 = 0 THEN q ELSE q + 1

\* (Level.VALUE_OFF, Level.VALUE_FULL)[level > Level.VALUE_FADER_MIDPOINT]
Reference(lv) == IF lv > VALUE_FADER_MIDPOINT THEN VALUE_FULL ELSE VALUE_OFF

\* One turn of the loop for the fader level lv and a pair's base level.
SDcaLevel(lv, base_level) ==
    Level(base_level + TruncDiv((Reference(lv) - base_level) * (lv - VALUE_FADER_MIDPOINT),
                                Reference(lv) - VALUE_FADER_MIDPOINT))

\* The loop of _apply_s_dca_values: `level = Level(base_level + int(diff))`
\* assigns the parameter, so the next pair is computed from the send level
\* of the pair before it.
RECURSIVE SDcaLoop(_, _)
SDcaLoop(lv, bases) ==
    IF bases = <<>> THEN <<>>
    ELSE <<SDcaLevel(lv, Head(bases))>> \o SDcaLoop(SDcaLevel(lv, Head(bases)), Tail(bases))

\* VirtualChannel._apply_s_dca_values(level): the send levels set.
ApplySDcaValues(lv, bases) ==
    IF lv = Level(VALUE_FADER_MIDPOINT) THEN <<>> ELSE SDcaLoop(lv, bases)

\* The call.
apply_s_dca_values ==
    /\ worker.pc = "called"
    /\ worker' = [worker EXCEPT !.pc = "returned", !.set = ApplySDcaValues(worker.p, worker.bases)]
    /\ op' = Call("_apply_s_dca_values", TV("send_level", NoCh, NoCh), worker.p)
    /\ UNCHANGED <<classOf, value, last_resolve, requests, now, fired, bank_offset, cmd, stage,
                   wire, port, inbox, messages, decoded, mute_color_quirks_mode, inbound,
                   listener, last_inbound_data, clock, feedback_source, sync, hist, layer,
                   strip, turn, queue, jobs, keys>>

InitSDca ==
    /\ SessionApart
    /\ queue = <<>>
    /\ jobs = <<>>
    /\ keys = <<>>
    /\ \E p \in FaderPositions, n \in 1..MaxAffected :
          \E bases \in [1..n -> BaseLevels] :
             worker = [pc |-> "called", p |-> p, bases |-> bases, set |-> <<>>]

NextSDca == apply_s_dca_values

SpecSDca == InitSDca /\ [][NextSDca]_vars

\* ------------------------------------------------------------- claim C33
\* The send level the claim gives for the fader position p and a base level.
ClaimedSDcaLevel(p, base_level) ==
    Level(base_level + RoundDiv((Reference(p) - base_level) * (p - VALUE_FADER_MIDPOINT),
                                Reference(p) - VALUE_FADER_MIDPOINT))

\* C33: a fader position equal to FADER_MIDPOINT changes no send level; for
\* every other position p each affected pair gets
\* clamp(base_level + round((ref - base_level) * (p - MIDPOINT) / (ref - MIDPOINT)), 0, 127)
\* with ref = FULL if p > MIDPOINT else OFF, the same p for every pair.
C33_SDcaLevels ==
    worker.pc = "returned" =>
       worker.set = IF worker.p = VALUE_FADER_MIDPOINT THEN <<>>
                    ELSE [k \in 1..Len(worker.bases) |->
                            ClaimedSDcaLevel(worker.p, worker.bases[k])]

\* ------------------------------------------ bind_s_dca of entity.py
\* The binding of a send-DCA on the VirtualChannel of dlive/entity.py. `strip`
\* holds its _mode, _channel_base, _channel_send, _affected_s_dca_channels
\* and _level; `worker` the send levels of two input channels towards the
\* one output (NoneVal while not settled) and their snapshots.
SDcaChannels == {1, 2}

SDcaLists == {<<1>>, <<2>>, <<1, 2>>}

SDcaOutput == ApiSend

SDcaSends == {NoneVal, 50, VALUE_0DB}

LegacyStrip(mode, base, to, affected, lv) ==
    [mode |-> mode, base |-> base, to |-> to, affected |-> affected, level |-> lv]

\* list(zip(base_channels, map(lambda c: c.get_send_level(to_channel), base_channels)))
FreshPairs(sends, base_channels) ==
    [k \in 1..Len(base_channels) |->
        [channel |-> base_channels[k], level |-> sends[base_channels[k]]]]

\* `None in list(map(lambda x: x[1], self._affected_s_dca_channels))`: the
\* test reads the list of the binding before, not the one just computed.
Unsettled(pairs) == \E k \in 1..Len(pairs) : pairs[k].level = NoneVal

\* The state after a call on the legacy VirtualChannel.
LegacyCommit(s, w, name, returned) ==
    /\ strip' = s
    /\ worker' = w
    /\ op' = [Call(name, TV("strip", NoCh, NoCh), 0) EXCEPT !.queued = returned]
    /\ UNCHANGED <<classOf, value, last_resolve, requests, now, fired, bank_offset, cmd, stage,
                   wire, port, inbox, messages, decoded, mute_color_quirks_mode, inbound,
                   listener, last_inbound_data, clock, feedback_source, sync, hist, layer,
                   turn, queue, jobs, keys>>

\* VirtualChannel.bind_s_dca(base_channels, to_channel); op.queued is the
\* value returned. An accepted call backs up the sends of the base channels
\* and sets the fader to the midpoint, which applies no send level.
bind_s_dca(base_channels) ==
    LET fresh == FreshPairs(worker.sends, base_channels)
    IN IF Unsettled(strip.affected)
       THEN LegacyCommit(strip, [worker EXCEPT !.given = base_channels], "bind_s_dca", FALSE)
       ELSE LegacyCommit(LegacyStrip("SEND_DCA", NoCh, SDcaOutput, fresh, VALUE_FADER_MIDPOINT),
                         [worker EXCEPT !.given = base_channels,
                                        !.snapshot = [c \in SDcaChannels |->
                                            IF \E k \in 1..Len(base_channels) :
                                                  base_channels[k] = c
                                               /\ worker.sends[c] # NoneVal
                                            THEN worker.sends[c] ELSE @[c]]],
                         "bind_s_dca", TRUE)

\* VirtualChannel.unbind of entity.py
legacy_unbind ==
    LegacyCommit(LegacyStrip("NONE", NoCh, NoCh, <<>>, VALUE_OFF),
                 [worker EXCEPT !.given = <<>>], "unbind", TRUE)

\* The console reports the send level of an input channel to the output.
SendSettles(c, lv) ==
    /\ worker.sends[c] # lv
    /\ LegacyCommit(strip, [worker EXCEPT !.sends[c] = lv, !.given = <<>>], "set_send_level", TRUE)

InitSDcaBind ==
    /\ SessionBare
    /\ turn = NoTurn
    /\ strip = LegacyStrip("NONE", NoCh, NoCh, <<>>, VALUE_OFF)
    /\ queue = <<>>
    /\ jobs = <<>>
    /\ keys = <<>>
    /\ worker = [sends |-> [c \in SDcaChannels |-> NoneVal],
                 snapshot |-> [c \in SDcaChannels |-> NoneVal], given |-> <<>>]

NextSDcaBind ==
    \/ \E base_channels \in SDcaLists : bind_s_dca(base_channels)
    \/ legacy_unbind
    \/ \E c \in SDcaChannels, lv \in SDcaSends \ {NoneVal} : SendSettles(c, lv)

SpecSDcaBind == InitSDcaBind /\ [][NextSDcaBind]_vars

\* ------------------------------------------------------------- claim C34
\* C34: bind_s_dca returns false and leaves the strip's mode, base,
\* destination and list of affected channels as they were whenever the send
\* level of one of the given base channels towards the destination is not
\* settled, judged on the list computed by the call itself.
C34_UnsettledSDcaRejected ==
    [][(op'.name = "bind_s_dca" /\ Unsettled(FreshPairs(worker.sends, worker'.given))) =>
          /\ ~op'.queued
          /\ strip' = strip]_vars

\* ------------------------------- a TrackedValue and what its subscribers hold
\* One TrackedValue of bools with requests and resolves in any order, time
\* standing still. `turn` holds the value the last on_update_idle delivered
\* (NoneVal before the first).
IdleInstance == TV("mute", Ch("INPUT", 0), NoCh)

NothingDelivered == [pc |-> "idle", delivered |-> NoneVal]

\* The state after a call on the instance.
IdleCommit(r, name, v, t) ==
    /\ value' = [value EXCEPT ![IdleInstance] = r.value]
    /\ last_resolve' = [last_resolve EXCEPT ![IdleInstance] = r.last_resolve]
    /\ requests' = [requests EXCEPT ![IdleInstance] = r.requests]
    /\ fired' = r.fired
    /\ op' = [Call(name, IdleInstance, v) EXCEPT !.update = r.update]
    /\ turn' = t
    /\ UNCHANGED <<classOf, now, wire, port, bank_offset, cmd, stage, inbox, messages, decoded,
                   mute_color_quirks_mode, inbound, listener, last_inbound_data, clock,
                   feedback_source, sync, hist, layer, strip, queue, worker, jobs, keys>>

\* TrackedValue.resolve(v); a fired on_update_idle delivers v.
DeliveringResolve(v) ==
    \E r \in {ResolveOn(IdleInstance, v)} :
       IdleCommit(r, "resolve", v,
                  IF \E k \in 1..Len(r.fired) : r.fired[k].ev = "on_update_idle"
                  THEN [turn EXCEPT !.delivered = v] ELSE turn)

\* TrackedValue.request(v)
DeliveringRequest(v) ==
    \E r \in {RequestOn(IdleInstance, v)} :
       /\ Len(r.requests) <= MaxQueue
       /\ IdleCommit(r, "request", v, turn)

InitIdle ==
    /\ classOf = [i \in {IdleInstance} |-> "Tracked"]
    /\ value = [i \in DOMAIN classOf |-> NoneVal]
    /\ last_resolve = [i \in DOMAIN classOf |-> NoneVal]
    /\ requests = [i \in DOMAIN classOf |-> <<>>]
    /\ now = 0
    /\ op = NoOp
    /\ fired = <<>>
    /\ wire = <<>>
    /\ port = NewPort(0)
    /\ bank_offset = 0
    /\ cmd = NoCmd
    /\ stage = "idle"
    /\ inbox = <<>>
    /\ messages = <<>>
    /\ decoded = <<>>
    /\ mute_color_quirks_mode = FALSE
    /\ inbound = <<>>
    /\ listener = "idle"
    /\ last_inbound_data = 0
    /\ clock = 0
    /\ feedback_source = NoCh
    /\ sync = NoSync
    /\ hist = NoHist
    /\ layer = NoLayer
    /\ strip = NoStrip
    /\ turn = NothingDelivered
    /\ queue = <<>>
    /\ worker = NoWorker
    /\ jobs = <<>>
    /\ keys = <<>>

NextIdle ==
    \/ \E v \in ValuesOf("mute") : DeliveringResolve(v)
    \/ \E v \in ValuesOf("mute") : DeliveringRequest(v)

SpecIdle == InitIdle /\ [][NextIdle]_vars

\* ------------------------------------------------------------- claim C35
\* C35: whenever the queue of requests is empty and the current value has
\* been set, the value last delivered through on_update_idle is the current
\* value.
C35_IdleSubscribersHoldCurrent ==
    (requests[IdleInstance] = <<>> /\ value[IdleInstance] # NoneVal) =>
       turn.delivered = value[IdleInstance]

\* --------------------------------------- the change calls of a limited port
\* The session after psurface has enabled the rate limiting of the outbound
\* port: the mute and the level of one input, requested, answered by the
\* console, and time passing.
InitLimited ==
    /\ classOf = [i \in {TV("mute", ApiInput, NoCh), TV("level", ApiInput, NoCh)} |-> "Tracked"]
    /\ value = [i \in DOMAIN classOf |-> NoneVal]
    /\ last_resolve = [i \in DOMAIN classOf |-> NoneVal]
    /\ requests = [i \in DOMAIN classOf |-> <<>>]
    /\ now = 0
    /\ op = NoOp
    /\ fired = <<>>
    /\ wire = <<>>
    /\ port = NewPort(0)
    /\ CodecIdle

\* A change_mute whose request is queued while the socket is broken:
\* _do_send_bytes raises IOError out of send_bytes and out of the call.
change_mute_broken_pipe(m) ==
    \E rq \in {RequestOn(TV("mute", ApiInput, NoCh), m)} :
       /\ rq.queued
       /\ Len(rq.requests) <= MaxPending
       /\ value' = [value EXCEPT ![TV("mute", ApiInput, NoCh)] = rq.value]
       /\ last_resolve' = [last_resolve EXCEPT ![TV("mute", ApiInput, NoCh)] = rq.last_resolve]
       /\ requests' = [requests EXCEPT ![TV("mute", ApiInput, NoCh)] = rq.requests]
       /\ fired' = rq.fired
       /\ wire' = <<>>
       /\ op' = [Call("change_mute", TV("mute", ApiInput, NoCh), m) EXCEPT
                     !.pending = rq.pending, !.queued = TRUE, !.raised = "IOError"]
       /\ UNCHANGED <<classOf, now, port, codecVars>>

NextLimited ==
    \/ enable_rate_limiting
    \/ \E m \in ApiValues("mute") : change_mute_broken_pipe(m)
    \/ \E m \in ApiValues("mute") : change_mute(ApiInput, m)
    \/ \E lv \in ApiValues("level") : change_level(ApiInput, lv)
    \/ \E i \in all_instances : \E v \in ApiValues(Kind(i)) : listen_to_incoming_data(i, v)
    \/ Tick

SpecLimited == InitLimited /\ [][NextLimited]_vars

\* ------------------------------------------------------------- claim C36
\* C36: a request that a change_* call has put into the queue of a tracked
\* value belongs to a command written to the outbound port; a call whose
\* write the port dropped for rate limiting, or in which the port raised,
\* leaves no request queued.
C36_QueuedMeansWritten ==
    (op.name \in {"change_mute", "change_level"} /\ op.queued) =>
        /\ wire # <<>>
        /\ ~op.dropped
        /\ op.raised = "none"

\* --------------------------------------- a rebinding and its own echoes
\* A binding call of the controller's thread in two steps, its writes and its
\* `with self._mode_lock` block, with the console answering in between.
\* `worker` holds the call: the fields it is about to assign, the fields the
\* strip had when it started, and the mute and level it has written and the
\* console has not answered yet. An event of the AsyncEvent queues tells
\* whether it is the answer to a write of the binding call, and the fields
\* the strip had before that call; `handled` is what the handler thread has
\* taken last: whether it was such an answer, the base channel the strip had
\* before that binding call, and the channels its change_* calls addressed.
\* The binding calls of a run.
MaxRebinds == 2

NoEcho == [echo |-> FALSE, old |-> NoCh, to |-> {}]

NoRebind == [pc |-> "idle", target |-> InitialStrip, old |-> InitialStrip,
             wrote |-> [mute |-> NoneVal, level |-> NoneVal], handled |-> NoEcho,
             started |-> 0]

\* The state after a step of one of the three threads.
RebindCommit(c, s, w, q) ==
    /\ \A j \in DOMAIN c.requests : Len(c.requests[j]) <= MaxPending
    /\ requests' = c.requests
    /\ port' = c.port
    /\ wire' = c.written
    /\ strip' = s
    /\ worker' = w
    /\ queue' = q
    /\ op' = Call("statement", TV("strip", NoCh, NoCh), 0)
    /\ fired' = <<>>
    /\ UNCHANGED <<classOf, value, last_resolve, now, bank_offset, cmd, stage, inbox, messages,
                   decoded, mute_color_quirks_mode, inbound, listener, last_inbound_data,
                   clock, feedback_source, sync, hist, layer, turn, jobs, keys>>

\* What a change_* call of the binding call has written: the value of a
\* queued request.
QueuedValue(call) == IF call.queued THEN call.v ELSE NoneVal

\* A binding call up to its `with self._mode_lock`: change_mute(self, m) and
\* change_level(self, lv).
RebindWrite(m, lv, s) ==
    /\ worker.pc = "idle"
    /\ worker.started < MaxRebinds
    /\ \E c \in {ChangeLevelOn(ChangeMuteOn(StripContext, VirtualCh, m), VirtualCh, lv)} :
          RebindCommit(c, strip,
                       [worker EXCEPT !.pc = "assign", !.target = s, !.old = strip,
                                      !.started = worker.started + 1,
                                      !.wrote = [mute |-> QueuedValue(c.calls[1]),
                                                 level |-> QueuedValue(c.calls[2])]],
                       queue)

\* The `with self._mode_lock` block of the binding call, and its return.
RebindAssign ==
    /\ worker.pc = "assign"
    /\ RebindCommit(StripContext, worker.target, [worker EXCEPT !.pc = "idle"], queue)

\* The console answers the oldest request of the virtual channel's mute or
\* level: the listener resolves the tracked value, whose on_update_idle puts
\* the call of the handler into the AsyncEvent's queue.
EchoArrives(kind) ==
    LET i == TV(kind, VirtualCh, NoCh)
    IN /\ requests[i] # <<>>
       /\ queue[kind] = <<>>
       /\ LET v == Head(requests[i]).v
              rs == ResolveOn(i, v)
              idle == \E k \in 1..Len(rs.fired) : rs.fired[k].ev = "on_update_idle"
              own == worker.wrote[kind] = v
              e == [channel |-> VirtualCh, v |-> v,
                    echo |-> own /\ worker.old.base # worker.target.base,
                    old |-> worker.old]
          IN /\ value' = [value EXCEPT ![i] = rs.value]
             /\ last_resolve' = [last_resolve EXCEPT ![i] = rs.last_resolve]
             /\ requests' = [requests EXCEPT ![i] = rs.requests]
             /\ fired' = rs.fired
             /\ queue' = IF idle THEN [queue EXCEPT ![kind] = Append(queue[kind], e)] ELSE queue
             /\ worker' = IF own THEN [worker EXCEPT !.wrote[kind] = NoneVal] ELSE worker
             /\ op' = [Call("listen", i, v) EXCEPT !.pending = rs.remaining,
                           !.index = rs.index, !.mtime = rs.mtime, !.update = rs.update]
             /\ wire' = <<>>
             /\ UNCHANGED <<classOf, now, port, bank_offset, cmd, stage, inbox, messages,
                            decoded, mute_color_quirks_mode, inbound, listener,
                            last_inbound_data, clock, feedback_source, sync, hist, layer,
                            strip, turn, jobs, keys>>

\* The console reports a level of the output.
OutputArrives(lv) ==
    LET i == TV("level", StripOutput, NoCh)
        rs == ResolveOn(i, lv)
    IN /\ value' = [value EXCEPT ![i] = rs.value]
       /\ last_resolve' = [last_resolve EXCEPT ![i] = rs.last_resolve]
       /\ requests' = [requests EXCEPT ![i] = rs.requests]
       /\ fired' = rs.fired
       /\ op' = [Call("listen", i, lv) EXCEPT !.pending = rs.remaining,
                     !.index = rs.index, !.mtime = rs.mtime, !.update = rs.update]
       /\ wire' = <<>>
       /\ UNCHANGED <<classOf, now, port, bank_offset, cmd, stage, inbox, messages,
                      decoded, mute_color_quirks_mode, inbound, listener,
                      last_inbound_data, clock, feedback_source, sync, hist, layer,
                      strip, turn, queue, worker, jobs, keys>>

\* AsyncEvent._worker hands the next call to _on_level_changed or
\* _on_mute_changed, which reads the fields of the strip and dispatches.
EchoHandled(kind) ==
    /\ queue[kind] # <<>>
    /\ LET e == Head(queue[kind])
       IN \E c \in {IF kind = "level" THEN OnLevelChanged(StripContext, strip, e.channel, e.v)
                    ELSE OnMuteChanged(StripContext, strip, e.channel, e.v)} :
             RebindCommit(c, strip,
                          [worker EXCEPT !.handled =
                              [echo |-> e.echo, old |-> e.old.base,
                               to |-> {c.calls[k].tv[2] : k \in 1..Len(c.calls)}]],
                          [queue EXCEPT ![kind] = Tail(queue[kind])])

InitRebind ==
    /\ StripConstructed
    /\ worker = NoRebind

NextRebind ==
    \/ RebindWrite(0, VALUE_OFF, VStrip("TIE_TO_ZERO", NoCh, NoCh))
    \/ RebindWrite(0, get_send_level(StripInput, StripOutput),
                   VStrip("TRACK_SEND_LEVEL", StripInput, StripOutput))
    \/ RebindWrite(get_mute(StripOutput), get_level(StripOutput),
                   VStrip("TRACK_MASTER_LEVEL", StripOutput, NoCh))
    \/ RebindWrite(1, VALUE_OFF, InitialStrip)
    \/ RebindAssign
    \/ \E kind \in {"level", "mute"} : EchoArrives(kind)
    \/ \E lv \in StripLevels : OutputArrives(lv)
    \/ \E kind \in {"level", "mute"} : EchoHandled(kind)

SpecRebind == InitRebind /\ [][NextRebind]_vars

\* ------------------------------------------------------------- claim C37
\* C37: the handler that takes the answer to a mute or level that a binding
\* call has written to the strip makes no change_send_level, change_level or
\* change_mute addressed to the base channel the strip was bound to before
\* that binding call.
C37_OwnEchoNotForwardedToOldTarget ==
    (worker.handled.echo /\ worker.handled.old # NoCh) =>
        worker.handled.old \notin worker.handled.to

\* ------------------------------------------------------------- claim C38
\* C38: toggle_channel_filter called while the controller is in MIXING or in
\* a CUSTOM_* mode, and the filter reset of select_mixing_mode in those
\* modes, rebinds no virtual strip and leaves the feedback routing as it was.
C38_ToggleOutsideFaderModesOnlyModifier ==
    [][(/\ op'.name \in {"toggle_channel_filter", "select_mixing_mode"}
        /\ layer.mode \in {"MIXING", "CUSTOM_AUX", "CUSTOM_FX", "CUSTOM_UTIL"}
        /\ layer'.channel_filter # layer.channel_filter) =>
          /\ layer'.strips = layer.strips
          /\ feedback_source' = feedback_source
          /\ layer'.reconfigure = layer.reconfigure]_vars

\* ------------------------------------------------------------- claim C39
\* C39: also when sync runs again with the colour poll of an earlier sync
\* installed, no request_colour is written to the console while the quirks
\* flag of the decoder is set.
C39_NoColourRequestInQuirksWindow ==
    [][((op'.name = "poll_color_updates" \/ SyncMoved)
           /\ \E k \in 1..Len(wire') : IsRequestColor(wire'[k]))
          => ~mute_color_quirks_mode]_vars

\* ------------------------------- reconfigurations on two threads
\* The reconfiguration of toggle_channel_filter, on the caller's thread and
\* without _configure_lock, and the one of _on_scene_change, on the worker of
\* api.on_update_scene under the lock, each taken strip by strip. `worker`
\* holds for each thread its position (the strip it is about to configure),
\* the strips and the feedback source its configuration arrives at, and the
\* calls it has finished; `origin` is the controller and the feedback source
\* when the first of two overlapping reconfigurations began, `scene` the
\* scene of the handler.
MaxReconfigurations == 1

IdleConfigurer == [pc |-> "idle", k |-> 0, strips |-> <<>>, source |-> NoCh, touched |-> {},
                   runs |-> 0]

NoThreads == [toggle |-> IdleConfigurer, handler |-> IdleConfigurer,
              origin |-> [layer |-> NoLayer, source |-> NoCh], scene |-> NoneVal]

\* The strips a configuration binds or ties: _configure_outputs all 16,
\* _configure_sends_on_fader strips 0..14 (with fewer than 16 sends shown).
Touched(what) ==
    CASE what = "outputs" -> 0..(NumStrips - 1)
      [] what = "sends" -> 0..14
      [] OTHER -> {}

\* The state after a step of one of the two threads.
ThreadCommit(L, source, w, name) ==
    /\ layer' = L
    /\ feedback_source' = source
    /\ worker' = w
    /\ op' = Call(name, TV("layer", NoCh, NoCh), NoneVal)
    /\ fired' = <<>>
    /\ wire' = <<>>
    /\ UNCHANGED <<tvVars, now, port, bank_offset, cmd, stage, inbox, messages, decoded,
                   mute_color_quirks_mode, inbound, listener, last_inbound_data,
                   clock, sync, hist, strip, turn, queue, jobs, keys>>

\* The thread begins the configuration that ends in context c: what it is
\* going to assign, strip by strip.
Begun(t, c, what) ==
    [t EXCEPT !.pc = IF Touched(what) = {} THEN "idle" ELSE "configure",
              !.k = 0, !.strips = c.layer.strips, !.source = c.source,
              !.touched = Touched(what),
              !.runs = IF Touched(what) = {} THEN t.runs + 1 ELSE t.runs]

\* The controller and feedback source when the thread begins, unless the
\* other thread has begun its reconfiguration before.
Origin(other) ==
    IF other.pc = "idle" /\ other.runs = 0
    THEN [layer |-> layer, source |-> feedback_source]
    ELSE worker.origin

\* toggle_channel_filter up to the first strip of self._reconfigure_callback()
ToggleBegins ==
    /\ worker.toggle.pc = "idle"
    /\ worker.toggle.runs < MaxReconfigurations
    /\ \E c \in {Reconfigure([Context EXCEPT !.layer.channel_filter = ~layer.channel_filter])} :
          ThreadCommit([c.layer EXCEPT !.strips = layer.strips],
                       IF layer.reconfigure.what = "none" THEN c.source ELSE feedback_source,
                       [worker EXCEPT !.toggle = Begun(worker.toggle, c, layer.reconfigure.what),
                                      !.origin = Origin(worker.handler)],
                       "toggle_channel_filter")

\* The branch of _on_scene_change that configures strips, if any.
Configures(scene) ==
    CASE scene_config.virtual_left_start <= scene
            /\ scene < scene_config.virtual_left_start + 6
            /\ scene # layer.virtual_right /\ ~InMixingRange(scene) -> "outputs"
      [] scene = scene_config.sends /\ scene # layer.virtual_right
            /\ ~InMixingRange(scene) -> "sends"
      [] OTHER -> "none"

\* AsyncEvent._worker of api.on_update_scene hands the next scene to
\* _on_scene_change, which runs up to the first strip of its configuration.
HandlerBegins ==
    /\ worker.handler.pc = "idle"
    /\ worker.handler.runs < MaxReconfigurations
    /\ layer.queue # <<>>
    /\ LET scene == Head(layer.queue)
           what == Configures(scene)
       IN \E c \in {OnSceneChange([Context EXCEPT !.layer.queue = Tail(layer.queue)], scene)} :
             ThreadCommit(IF what = "none" THEN c.layer
                          ELSE [c.layer EXCEPT !.strips = layer.strips],
                          IF what = "none" THEN c.source ELSE feedback_source,
                          [worker EXCEPT !.handler = Begun(worker.handler, c, what),
                                         !.origin = Origin(worker.toggle),
                                         !.scene = scene],
                          "on_scene_change")

\* The next bind_send, tie_to_zero or bind_master of the configuration of
\* thread th; with the last strip, its change_feedback_source.
ConfigureStrip(th) ==
    /\ worker[th].pc = "configure"
    /\ LET t == worker[th]
           last == t.k = NumStrips - 1
       IN ThreadCommit(IF t.k \in t.touched
                       THEN [layer EXCEPT !.strips[t.k] = t.strips[t.k]] ELSE layer,
                       IF last THEN t.source ELSE feedback_source,
                       [worker EXCEPT ![th] = [t EXCEPT !.k = IF last THEN 0 ELSE t.k + 1,
                                                        !.pc = IF last THEN "idle"
                                                               ELSE "configure",
                                                        !.runs = IF last THEN t.runs + 1
                                                                 ELSE t.runs]],
                       "configure")

\* No reconfiguration is under way and none of the two threads has taken its
\* strip by strip turn yet.
Beforehand ==
    /\ worker.toggle.pc = "idle" /\ worker.toggle.runs = 0
    /\ worker.handler.pc = "idle" /\ worker.handler.runs = 0

InitInterleave ==
    /\ classOf = LayerInstances
    /\ value = [i \in DOMAIN classOf |->
                   CASE Kind(i) = "scene" -> NoneVal
                     [] Kind(i) = "label" -> 1
                     [] Kind(i) = "send_level" ->
                            IF i[2] = ApiInput /\ i[3] = ApiSend THEN VALUE_0DB ELSE NoneVal]
    /\ last_resolve = [i \in DOMAIN classOf |-> NoneVal]
    /\ requests = [i \in DOMAIN classOf |-> <<>>]
    /\ now = 0
    /\ op = NoOp
    /\ fired = <<>>
    /\ wire = <<>>
    /\ port = NewPort(0)
    /\ bank_offset = 0
    /\ cmd = NoCmd
    /\ stage = "idle"
    /\ inbox = <<>>
    /\ messages = <<>>
    /\ decoded = <<>>
    /\ mute_color_quirks_mode = FALSE
    /\ inbound = <<>>
    /\ listener = "running"
    /\ last_inbound_data = 0
    /\ clock = 0
    /\ feedback_source = NoCh
    /\ sync = NoSync
    /\ hist = NoHist
    /\ layer = NewLayer(scene_config.virtual_left_start + 6)
    /\ strip = NoStrip
    /\ turn = NoTurn
    /\ queue = <<>>
    /\ worker = NoThreads
    /\ jobs = <<>>
    /\ keys = <<>>

InterleaveScenes == {scene_config.virtual_left_start, scene_config.sends}

NextInterleave ==
    \/ \E scene \in InterleaveScenes : SceneArrives(scene)
    \/ Beforehand /\ SceneWorker
    \/ ToggleBegins
    \/ HandlerBegins
    \/ \E th \in {"toggle", "handler"} : ConfigureStrip(th)

SpecInterleave == InitInterleave /\ [][NextInterleave]_vars

\* ------------------------------------------------------------- claim C40
\* toggle_channel_filter as one step on the context c
ToggleAlone(c) == Reconfigure([c EXCEPT !.layer.channel_filter = ~c.layer.channel_filter])

\* The context the two reconfigurations started from.
OriginContext == [Context EXCEPT !.layer = worker.origin.layer, !.source = worker.origin.source]

\* What the controller shows: mode, bank, filter, strips, feedback source.
Configuration(L, source) == <<L.mode, L.bank, L.channel_filter, L.strips, source>>

ConfigurationOf(c) == Configuration(c.layer, c.source)

\* C40: when a reconfiguration of toggle_channel_filter and one of a scene
\* arrival have both finished, the 16 strips, the mode, the bank, the filter
\* and the feedback source are those of the two run one after the other, in
\* one of the two orders.
C40_ReconfigurationsSerial ==
    (/\ worker.toggle.pc = "idle" /\ worker.toggle.runs = 1
     /\ worker.handler.pc = "idle" /\ worker.handler.runs = 1) =>
        Configuration(layer, feedback_source) \in
            {ConfigurationOf(OnSceneChange(ToggleAlone(OriginContext), worker.scene)),
             ConfigurationOf(ToggleAlone(OnSceneChange(OriginContext, worker.scene)))}

====
